---- MODULE Spec2Model ----
(***************************************************************************)
(* TV-Split-Optimizer: the allocation engine of calculationService.ts      *)
(* (metric calculator, selection filters, share optimizer) and the         *)
(* handlers of the results screen that call it.                            *)
(*                                                                         *)
(* Numbers.  A JavaScript number is modelled as an exact rational          *)
(* <<n, d>> with d > 0 in lowest terms; null is <<0, 0>> and NaN is        *)
(* <<1, 0>>.  Rounding of IEEE doubles is not modelled: equality up to     *)
(* rounding is exact equality here.                                        *)
(***************************************************************************)
EXTENDS Integers, Sequences, FiniteSets, TLC

VARIABLES
    step,           \* App: the current wizard step
    completedSteps, \* App: the steps the stepper lets the user return to
    ratings,        \* App.files.ratings: rows of the ratings sheet (<<>> when null)
    briefData,      \* App.briefData.regionBriefs
    results,        \* App.results (present = FALSE when null)
    error,          \* App.error (NoError when null)
    availableRegions, \* App.availableRegions (NoList when null)
    availableTAs,   \* App.availableTAs (NoList when null)
    isLoading,      \* App.isLoading
    reading,        \* UploadStep.handleSubmit calls that have not reached onSubmit
    localResults,   \* ResultsStep.localResults (present = FALSE when not mounted)
    activeRegion,   \* region tab of ResultsStep
    recomputes,     \* ad hoc recomputes done on this results screen
    submitted,      \* what the panel passed to the last ad hoc recompute
    optData,        \* optimizeSplit: the list being optimized
    optBrief,       \* optimizeSplit: brief argument
    optLogic,       \* optimizeSplit: weightingLogic argument
    optLimits,      \* optimizeSplit: applyLimits argument
    optWeights,     \* optimizeSplit: weights argument
    optCaller,      \* the wrapper that called optimizeSplit ("single", "constructor")
    iterationCount, \* optimizeSplit: passes started
    changesMade,    \* optimizeSplit: the flag of the do/while loop
    optPc           \* optimizeSplit: position ("idle","loop","cap","finalize","done")

vars == <<step, completedSteps, ratings, briefData, results, error,
          availableRegions, availableTAs, isLoading, reading,
          localResults, activeRegion, recomputes, submitted,
          optData, optBrief, optLogic, optLimits, optWeights, optCaller,
          iterationCount, changesMade, optPc>>

appVars == <<step, completedSteps, ratings, briefData, results, error,
            availableRegions, availableTAs, isLoading>>
screenVars == <<localResults, activeRegion, recomputes, submitted>>
optVars == <<optData, optBrief, optLogic, optLimits, optWeights, optCaller,
            iterationCount, changesMade, optPc>>

---------------------------------------------------------------------------
(* Bounds of the model *)

\* most rows of a ratings file
MaxRows == 3

\* most ad hoc recomputes on one results screen
MaxRecomputes == 1

\* most ad hoc recomputes on a results screen followed on its own
MaxScreenRecomputes == 2

---------------------------------------------------------------------------
(* JavaScript numbers *)

Null == <<0, 0>>
NaN == <<1, 0>>
Zero == <<0, 1>>
One == <<1, 1>>

IsNum(x) == x[2] > 0
IsNaN(x) == x = NaN

Abs(n) == IF n < 0 THEN -n ELSE n

RECURSIVE GCD(_, _)
GCD(a, b) == IF b = 0 THEN a ELSE GCD(b, a % b)

\* the rational n/d in lowest terms, d # 0
Rat(n, d) ==
    LET g == GCD(Abs(n), Abs(d))
        s == IF d < 0 THEN -1 ELSE 1
    IN  <<(s * n) \div g, (s * d) \div g>>

Num(n) == <<n, 1>>

\* ToNumber: null is 0 in arithmetic and comparisons
ToNum(x) == IF x = Null THEN Zero ELSE x

Add(x, y) ==
    LET a == ToNum(x)  b == ToNum(y)
    IN  IF IsNaN(a) \/ IsNaN(b) THEN NaN
        ELSE Rat(a[1] * b[2] + b[1] * a[2], a[2] * b[2])

Sub(x, y) ==
    LET a == ToNum(x)  b == ToNum(y)
    IN  IF IsNaN(a) \/ IsNaN(b) THEN NaN
        ELSE Rat(a[1] * b[2] - b[1] * a[2], a[2] * b[2])

Mul(x, y) ==
    LET a == ToNum(x)  b == ToNum(y)
    IN  IF IsNaN(a) \/ IsNaN(b) THEN NaN
        ELSE Rat(a[1] * b[1], a[2] * b[2])

\* x / y; a division by zero (Infinity or NaN in JavaScript) is folded into NaN
Div(x, y) ==
    LET a == ToNum(x)  b == ToNum(y)
    IN  IF IsNaN(a) \/ IsNaN(b) \/ b[1] = 0 THEN NaN
        ELSE Rat(a[1] * b[2], a[2] * b[1])

\* x < y and x > y: false when either side is NaN
Lt(x, y) ==
    LET a == ToNum(x)  b == ToNum(y)
    IN  ~IsNaN(a) /\ ~IsNaN(b) /\ a[1] * b[2] < b[1] * a[2]

Gt(x, y) == Lt(y, x)
Le(x, y) == Lt(x, y) \/ (~IsNaN(ToNum(x)) /\ ToNum(x) = ToNum(y))

\* truthiness of a number: null, NaN and 0 are falsy
Truthy(x) == IsNum(x) /\ x[1] # 0

\* x || 0
OrZero(x) == IF Truthy(x) THEN x ELSE Zero

\* x || 1
OrOne(x) == IF Truthy(x) THEN x ELSE One

\* Math.ceil of a rational, as an integer
Ceil(x) == IF x[1] % x[2] = 0 THEN x[1] \div x[2] ELSE (x[1] \div x[2]) + 1

\* JSON.parse(JSON.stringify(x)) of a number: NaN is written as null
JsonNum(x) == IF IsNaN(x) THEN Null ELSE x

---------------------------------------------------------------------------
(* Input tables *)

\* A row of the ratings sheet, as processFilesAndCalculate reads it:
\*   region   normalizeRegionName(row[regionColIdx])
\*   base     String(row[channelColIdx]).split('(')[0].trim()
\*   rawSfx   the raw name already ends with " - 0"
\*   block    the distribution-block cell contains the orbital marker
\*   avg, total, sales   parseFloat of the three rating cells
\*   grp      the buying-GRP cell is neither blank nor N/A
RatingsRow(region, base, rawSfx, block, avg, total, sales, grp) ==
    [region |-> region, base |-> base, rawSfx |-> rawSfx, block |-> block,
     avg |-> avg, total |-> total, sales |-> sales, grp |-> grp]

\* The rows a ratings file is drawn from (two rows "b" of r1 stand for
\* "b (x)" and "b (y)", which split('(') maps to one name; the only row of
\* r3 carries a channel name with a '/').
RowCatalog ==
    << RatingsRow("r1", "a", FALSE, FALSE, Num(4), Num(4), Num(2), TRUE),
       RatingsRow("r1", "b", FALSE, FALSE, Num(1), Num(2), Num(2), TRUE),
       RatingsRow("r1", "b", FALSE, FALSE, Num(3), Num(3), Num(3), TRUE),
       RatingsRow("r1", "a", FALSE, TRUE,  Num(2), Num(2), Num(1), TRUE),
       RatingsRow("r1", "c", FALSE, FALSE, Num(0), Num(1), Num(1), TRUE),
       RatingsRow("r1", "d", FALSE, FALSE, Num(2), NaN,    Num(0), FALSE),
       RatingsRow("r1", "e", FALSE, FALSE, NaN,    Num(1), Num(1), TRUE),
       RatingsRow("r2", "a", FALSE, FALSE, Num(1), Num(1), Num(1), TRUE),
       RatingsRow("r2", "a", FALSE, TRUE,  Num(3), Num(3), Num(1), FALSE),
       RatingsRow("r2", "c", TRUE,  FALSE, Num(2), Num(2), Num(2), TRUE),
       RatingsRow("r3", "x/y", FALSE, FALSE, Num(2), Num(2), Num(1), TRUE) >>

\* A file of three channels of r4 with ratings 2, 1, 1 (prices 100, 50, 50)
EfficiencyExample ==
    << RatingsRow("r4", "x", FALSE, FALSE, Num(2), Num(2), Num(1), TRUE),
       RatingsRow("r4", "y", FALSE, FALSE, Num(1), Num(1), Num(1), TRUE),
       RatingsRow("r4", "z", FALSE, FALSE, Num(1), Num(1), Num(1), TRUE) >>

\* A file in which two regions carry a channel of the same name
SameChannelExample ==
    << RatingsRow("r1", "a", FALSE, FALSE, Num(4), Num(4), Num(2), TRUE),
       RatingsRow("r1", "b", FALSE, FALSE, Num(1), Num(2), Num(2), TRUE),
       RatingsRow("r2", "a", FALSE, FALSE, Num(1), Num(1), Num(1), TRUE) >>

\* A file of r5 in which the rows "b (x)" and "b (y)" reduce to one name:
\* ratings 1 and 20 for "b", 5 for "i", 20 for "x" (prices 1, 10, 2)
DuplicateNameExample ==
    << RatingsRow("r5", "b", FALSE, FALSE, Num(1), Num(1), Num(1), TRUE),
       RatingsRow("r5", "b", FALSE, FALSE, Num(20), Num(20), Num(20), TRUE),
       RatingsRow("r5", "i", FALSE, FALSE, Num(5), Num(5), Num(5), TRUE),
       RatingsRow("r5", "x", FALSE, FALSE, Num(20), Num(20), Num(20), TRUE) >>

\* String(row[channelColIdx]).includes('/')
IncludesSlash(base) == base \in {"x/y"}

\* A rating header "<ta>__<suffix>" of the ratings sheet
Header(ta, suffix) == [ta |-> ta, suffix |-> suffix]

\* The rating headers of every sheet: both columns of "All 18+", only the
\* average column of "W 25-45", only the total column of "M 18+"
Headers ==
    { Header("All 18+", "AVG TVR"), Header("All 18+", "TVR"),
      Header("W 25-45", "AVG Reg TVR"), Header("M 18+", "PBA Reg TVR") }

\* findAvgTAColumn(headers, baseTA) !== -1
findAvgTAColumn(headers, baseTA) ==
    \E h \in headers : h.ta = baseTA /\ h.suffix \in {"AVG Reg TVR", "AVG TVR"}

\* findTotalTAColumn(headers, baseTA) !== -1
findTotalTAColumn(headers, baseTA) ==
    \E h \in headers : h.ta = baseTA /\ h.suffix \in {"PBA Reg TVR", "TVR"}

\* targetAudiences of preParseRatingsFile
TargetAudiences(headers) ==
    {h.ta : h \in {x \in headers :
                    x.suffix \in {"AVG Reg TVR", "PBA Reg TVR", "AVG TVR", "TVR"}}}

\* A row of the price sheet: region, raw channel name (base and " - 0"
\* suffix), block cell, parseFloat(row[2]).
CppRow(region, base, rawSfx, block, cpp) ==
    [region |-> region, base |-> base, rawSfx |-> rawSfx, block |-> block, cpp |-> cpp]

CppFile ==
    << CppRow("r1", "a", FALSE, FALSE, Num(12)),
       CppRow("r1", "b", FALSE, FALSE, Num(12)),
       CppRow("r1", "a", TRUE,  FALSE, Num(12)),
       CppRow("r1", "c", FALSE, FALSE, Num(6)),
       CppRow("r1", "d", FALSE, FALSE, Num(6)),
       CppRow("r1", "e", FALSE, FALSE, Num(0)),
       CppRow("r2", "a", FALSE, FALSE, Num(4)),
       CppRow("r2", "a", FALSE, TRUE,  Num(2)),
       CppRow("r2", "c", TRUE,  FALSE, Num(5)),
       CppRow("r4", "x", FALSE, FALSE, Num(100)),
       CppRow("r4", "y", FALSE, FALSE, Num(50)),
       CppRow("r4", "z", FALSE, FALSE, Num(50)),
       CppRow("r5", "b", FALSE, FALSE, Num(1)),
       CppRow("r5", "i", FALSE, FALSE, Num(10)),
       CppRow("r5", "x", FALSE, FALSE, Num(2)) >>

\* The price-lookup key: the normalized base name, whether the hyphen of a
\* " - 0" inside the normalized part became a space ("x 0"), and whether the
\* orbital suffix " - 0" was appended.
CppKey(base, hyp, sfx) == [base |-> base, hyp |-> hyp, sfx |-> sfx]

\* getCppMap: key of one price row
CppRowKey(row) ==
    LET isOrbital == row.block \/ row.rawSfx
    IN  IF isOrbital THEN CppKey(row.base, FALSE, TRUE)
        ELSE CppKey(row.base, FALSE, FALSE)

\* cppMap.get(region)?.get(key) ?? null ; a later row overwrites an earlier one
CppGet(region, key) ==
    LET hits == {i \in 1..Len(CppFile) :
                    CppFile[i].region = region /\ CppRowKey(CppFile[i]) = key}
    IN  IF hits = {} THEN Null
        ELSE CppFile[CHOOSE i \in hits : \A j \in hits : j <= i].cpp

---------------------------------------------------------------------------
(* Brief *)

\* RegionBrief together with its key in brief.regionBriefs; a BriefData is a
\* sequence of these in key insertion order (the order of Object.keys).
RegionBrief(region, minChannelShare, maxOrbitalShare, expensiveChannelCutoff) ==
    [region |-> region, targetAudience |-> "All 18+",
     minChannelShare |-> minChannelShare,
     maxOrbitalShare |-> maxOrbitalShare,
     expensiveChannelCutoff |-> expensiveChannelCutoff]

\* App.error when it is null
NoError == [kind |-> "none", ta |-> "", availableTAs |-> {}]

\* A check that looks for the average column only
MissingColumnsAvgOnly(headers, brief) ==
    LET bad == {i \in 1..Len(brief) : ~findAvgTAColumn(headers, brief[i].targetAudience)}
    IN  IF bad = {} THEN NoError
        ELSE [kind |-> "missingColumns",
              ta |-> brief[CHOOSE i \in bad : \A j \in bad : i <= j].targetAudience,
              availableTAs |-> {h.ta : h \in headers}]

\* The error thrown by step 2 of processFilesAndCalculate: the message names
\* the first audience of the brief without both columns and lists the
\* audiences of the headers matching /^(.*?)__.*TVR$/; NoError when every
\* audience has both columns
MissingColumns(headers, brief) ==
    LET bad == {i \in 1..Len(brief) :
                    ~(findAvgTAColumn(headers, brief[i].targetAudience) /\
                      findTotalTAColumn(headers, brief[i].targetAudience))}
    IN  IF bad = {} THEN NoError
        ELSE [kind |-> "missingColumns",
              ta |-> brief[CHOOSE i \in bad : \A j \in bad : i <= j].targetAudience,
              availableTAs |-> {h.ta : h \in headers}]

\* Object.keys(brief.regionBriefs)
BriefRegions(brief) == [i \in 1..Len(brief) |-> brief[i].region]

HasBrief(brief, region) == \E i \in 1..Len(brief) : brief[i].region = region

\* brief.regionBriefs[region], for a region that has one
GetBrief(brief, region) ==
    brief[CHOOSE i \in 1..Len(brief) : brief[i].region = region]

\* x ?? dflt
Coalesce(x, dflt) == IF x = Null THEN dflt ELSE x

\* const v = x; Body(v): x is computed once and Body reads its value
Bind(x, Body(_)) == CHOOSE out \in {Body(v) : v \in {x}} : TRUE

---------------------------------------------------------------------------
(* Metric calculator *)

NoComment == [kind |-> "null", val |-> Null]
Comment(kind, val) == [kind |-> kind, val |-> val]

\* channelForDisplay: the base name and how many " - 0" suffixes it carries
Channel(base, sfx) == [base |-> base, sfx |-> sfx]

\* d.channel.includes(" - 0")
IsOrbitalName(channel) == channel.sfx > 0

\* regionSortOrder.get(key) ?? 99
RegionSortOrder(brief, region) ==
    CHOOSE i \in 1..Len(brief) : brief[i].region = region

\* Body of the row loop of processFilesAndCalculate: the record pushed for a row
MakeChannelData(row, brief) ==
    LET isOrbital == row.block
        channelForDisplay ==
            Channel(row.base, (IF row.rawSfx THEN 1 ELSE 0) + (IF isOrbital THEN 1 ELSE 0))
        channelKeyForCpp == CppKey(row.base, row.rawSfx, isOrbital)
        avgTvrTa == row.avg
        totalTvrTa == row.total
        originalSalesTvr == row.sales
        cpp == CppGet(row.region, channelKeyForCpp)
        channelType == IF row.grp THEN "GRP" ELSE "Min"
        aff == IF Gt(totalTvrTa, Zero) /\ Gt(originalSalesTvr, Zero)
               THEN Div(totalTvrTa, originalSalesTvr) ELSE Null
        tcpp == IF channelType = "GRP" /\ Truthy(cpp) /\ Truthy(aff) /\ Gt(aff, Zero)
                    THEN Div(cpp, aff)
                ELSE IF channelType = "Min" /\ Truthy(cpp) /\ Gt(avgTvrTa, Zero)
                    THEN Div(Div(cpp, Num(3)), avgTvrTa)
                ELSE Null
        recalculatedSalesTvr ==
            IF Truthy(aff) /\ Gt(aff, Zero) THEN Div(avgTvrTa, aff) ELSE Null
    IN  [region |-> row.region, channel |-> channelForDisplay, tvrTa |-> avgTvrTa,
         salesTvr |-> recalculatedSalesTvr, cpp |-> cpp, aff |-> aff, tcpp |-> tcpp,
         ta |-> GetBrief(brief, row.region).targetAudience,
         sortOrder |-> RegionSortOrder(brief, row.region), type |-> channelType,
         indexTcpp |-> Null, selected |-> FALSE,
         weightedRating |-> Null, share |-> Null, trp |-> Null, comment |-> NoComment]

\* Math.max over a non-empty set of numbers
MaxOf(S) == CHOOSE x \in S : \A y \in S : ~Lt(x, y)

\* An index that divides by the region's mean tcpp instead of its maximum
WithIndexTcppOverMean(data, brief) ==
    [i \in 1..Len(data) |->
        LET d == data[i]
            regionChannels == {j \in 1..Len(data) :
                                 data[j].region = d.region /\ data[j].tcpp # Null}
            total == IF regionChannels = {} THEN Zero
                     ELSE LET F[S \in SUBSET regionChannels] ==
                                 IF S = {} THEN Zero
                                 ELSE LET j == CHOOSE x \in S : TRUE
                                      IN  Add(F[S \ {j}], data[j].tcpp)
                          IN  F[regionChannels]
            meanTcpp == Div(total, Num(Cardinality(regionChannels)))
        IN  IF HasBrief(brief, d.region) /\ d.tcpp # Null /\ Gt(meanTcpp, Zero)
            THEN [d EXCEPT !.indexTcpp = Div(d.tcpp, meanTcpp)]
            ELSE d]

\* Index TCPP: tcpp / max tcpp of the region, when that maximum is positive
WithIndexTcpp(data, brief) ==
    [i \in 1..Len(data) |->
        LET d == data[i]
            regionChannels == {j \in 1..Len(data) :
                                 data[j].region = d.region /\ data[j].tcpp # Null}
            maxTcpp == MaxOf({data[j].tcpp : j \in regionChannels})
        IN  IF HasBrief(brief, d.region) /\ d.tcpp # Null /\ Gt(maxTcpp, Zero)
            THEN [d EXCEPT !.indexTcpp = Div(d.tcpp, maxTcpp)]
            ELSE d]

\* Steps 3 of processFilesAndCalculate: the base snapshot initialData
BuildInitialData(rows, brief) ==
    LET kept == SelectSeq(rows, LAMBDA row : HasBrief(brief, row.region) /\ ~IncludesSlash(row.base))
    IN  Bind([i \in 1..Len(kept) |-> MakeChannelData(kept[i], brief)],
             LAMBDA pushed : WithIndexTcpp(pushed, brief))

---------------------------------------------------------------------------
(* Share optimizer: optimizeSplit *)

\* the cap of the do/while loop (iterationCount > 20 breaks)
MaxIterations == 20

\* the default of minChannelShare (regionBrief.minChannelShare ?? 2)
DefaultMinChannelShare == 2

\* the default of expensiveChannelCutoff (?? 20)
DefaultCutoff == 20

\* TRP budget of a split (share * 1000)
TotalTrp == 1000

NoWeights == [aff |-> Null, tcpp |-> Null, eff |-> Null, given |-> FALSE]
Weights(aff, tcpp, eff) == [aff |-> Num(aff), tcpp |-> Num(tcpp), eff |-> Num(eff), given |-> TRUE]

RECURSIVE SumNums(_)
\* reduce((sum, x) => sum + x, 0) over a sequence of numbers
SumNums(xs) == IF xs = <<>> THEN Zero ELSE Add(SumNums(SubSeq(xs, 1, Len(xs) - 1)), xs[Len(xs)])

\* The indices of a set, ascending, as a sequence (the order of Array.filter)
RECURSIVE SeqOfSet(_)
SeqOfSet(S) ==
    IF S = {} THEN <<>>
    ELSE LET m == CHOOSE x \in S : \A y \in S : y <= x
         IN  Append(SeqOfSet(S \ {m}), m)

\* the three raw component scores of the Custom logic
AffScore(d) == Mul(OrZero(d.tvrTa), OrOne(d.aff))
\* A score that leaves the cost per point out
TcppScoreRatingOnly(d, avgTcpp) == OrZero(d.tvrTa)

TcppScore(d, avgTcpp) ==
    IF Gt(avgTcpp, Zero) /\ Truthy(d.tcpp) /\ Gt(d.tcpp, Zero)
    THEN Div(OrZero(d.tvrTa), Div(d.tcpp, avgTcpp)) ELSE Zero
\* A score that leaves the price out
EffScoreRatingOnly(d) == OrZero(d.tvrTa)

EffScore(d) == IF Gt(OrZero(d.cpp), Zero) THEN Div(OrZero(d.tvrTa), d.cpp) ELSE Zero

\* the switch on weightingLogic
WeightedRating(d, weightingLogic, avgTcpp) ==
    CASE weightingLogic = "Natural" -> d.tvrTa
      [] weightingLogic = "Affinity" -> AffScore(d)
      [] weightingLogic = "Efficiency" -> EffScore(d)
      [] weightingLogic = "TCPP" -> TcppScore(d, avgTcpp)
      [] OTHER -> OrZero(d.tvrTa)

\* One region of one pass: assign weighted ratings, normalize shares
RegionPass(data, region, weightingLogic, weights) ==
    LET sel == SeqOfSet({i \in 1..Len(data) : data[i].region = region /\ data[i].selected})
        n == Len(sel)
        avgTcpp == Div(SumNums([k \in 1..n |-> OrZero(data[sel[k]].tcpp)]), Num(n))
        total_wr_aff == SumNums([k \in 1..n |-> AffScore(data[sel[k]])])
        total_wr_tcpp == SumNums([k \in 1..n |-> TcppScore(data[sel[k]], avgTcpp)])
        total_wr_eff == SumNums([k \in 1..n |-> EffScore(data[sel[k]])])
        \* wr.find(w => w.ch === d.channel): the first selected record of that name
        First(d) == data[sel[CHOOSE k \in 1..n :
                        /\ data[sel[k]].channel = d.channel
                        /\ \A j \in 1..(k - 1) : data[sel[j]].channel # d.channel]]
        Norm(x, total) == IF Gt(total, Zero) THEN Div(x, total) ELSE Zero
        Blend(d) ==
            LET w == First(d)
            IN  Add(Add(Mul(Div(weights.aff, Num(100)), Norm(AffScore(w), total_wr_aff)),
                        Mul(Div(weights.tcpp, Num(100)), Norm(TcppScore(w, avgTcpp), total_wr_tcpp))),
                    Mul(Div(weights.eff, Num(100)), Norm(EffScore(w), total_wr_eff)))
        Rated(d) == IF weightingLogic = "Custom" /\ weights.given THEN Blend(d)
                    ELSE WeightedRating(d, weightingLogic, avgTcpp)
        rated == [i \in 1..Len(data) |->
                    IF data[i].region = region /\ data[i].selected
                    THEN [data[i] EXCEPT !.weightedRating = Rated(data[i])]
                    ELSE data[i]]
        totalWeightedRating == SumNums([k \in 1..n |-> OrZero(rated[sel[k]].weightedRating)])
    IN  IF n = 0 THEN data
        ELSE IF Gt(totalWeightedRating, Zero)
        THEN [i \in 1..Len(data) |->
                IF rated[i].region = region /\ rated[i].selected
                    THEN [rated[i] EXCEPT !.share = Div(OrZero(rated[i].weightedRating), totalWeightedRating)]
                ELSE IF rated[i].region = region
                    THEN [rated[i] EXCEPT !.share = Zero]
                ELSE rated[i]]
        ELSE rated

RECURSIVE RegionsPass(_, _, _, _)
\* for (const region of regions) { ... } of one pass
RegionsPass(data, regions, weightingLogic, weights) ==
    IF regions = <<>> THEN data
    ELSE Bind(RegionPass(data, Head(regions), weightingLogic, weights),
              LAMBDA next : RegionsPass(next, Tail(regions), weightingLogic, weights))

\* (regionBrief.minChannelShare ?? 2) / 100
MinShare(regionBrief) ==
    Div(Coalesce(regionBrief.minChannelShare, Num(DefaultMinChannelShare)), Num(100))

\* the floor test of one record
BelowFloor(d, brief) ==
    /\ HasBrief(brief, d.region)
    /\ d.selected /\ d.share # Null
    /\ Lt(d.share, MinShare(GetBrief(brief, d.region)))

\* A floor pass that stops at the first record it deselects
FloorPassFirstOnly(data, brief) ==
    [i \in 1..Len(data) |->
        IF BelowFloor(data[i], brief) /\ \A j \in 1..(i - 1) : ~BelowFloor(data[j], brief)
        THEN [data[i] EXCEPT !.selected = FALSE,
                             !.comment = Comment("LowShare", MinShare(GetBrief(brief, data[i].region)))]
        ELSE data[i]]

\* if (applyLimits) data.forEach(... deselect below the floor ...)
FloorPass(data, brief) ==
    [i \in 1..Len(data) |->
        IF BelowFloor(data[i], brief)
        THEN [data[i] EXCEPT !.selected = FALSE,
                             !.comment = Comment("LowShare", MinShare(GetBrief(brief, data[i].region)))]
        ELSE data[i]]

\* A pass that never reports a change
LoopPassOnce(data, brief, weightingLogic, applyLimits, weights) ==
    Bind(RegionsPass(data, BriefRegions(brief), weightingLogic, weights), LAMBDA rated :
        [data |-> IF applyLimits THEN FloorPass(rated, brief) ELSE rated,
         changesMade |-> FALSE])

\* One pass of the do/while body after the cap test: the new list and changesMade
LoopPass(data, brief, weightingLogic, applyLimits, weights) ==
    Bind(RegionsPass(data, BriefRegions(brief), weightingLogic, weights), LAMBDA rated :
        [data |-> IF applyLimits THEN FloorPass(rated, brief) ELSE rated,
         changesMade |-> applyLimits /\ \E i \in 1..Len(rated) : BelowFloor(rated[i], brief)])

\* A cap that takes the freed share away from the network channels
RegionCapTakenFromNetwork(data, region, brief) ==
    LET regionBrief == GetBrief(brief, region)
        Orbital(d) == d.region = region /\ d.selected /\ IsOrbitalName(d.channel)
        Network(d) == d.region = region /\ d.selected /\ ~IsOrbitalName(d.channel)
        totalOrbitalShare ==
            SumNums([i \in 1..Len(data) |-> IF Orbital(data[i]) THEN OrZero(data[i].share) ELSE Zero])
        maxShare == Div(regionBrief.maxOrbitalShare, Num(100))
        totalNetworkShare ==
            SumNums([i \in 1..Len(data) |-> IF Network(data[i]) THEN OrZero(data[i].share) ELSE Zero])
    IN  IF regionBrief.maxOrbitalShare = Null THEN data
        ELSE IF Gt(totalOrbitalShare, maxShare)
        THEN [i \in 1..Len(data) |->
                IF Orbital(data[i])
                    THEN [data[i] EXCEPT !.share = Mul(data[i].share, Div(maxShare, totalOrbitalShare)),
                                         !.comment = Comment("OrbitalCapped", regionBrief.maxOrbitalShare)]
                ELSE IF Network(data[i]) /\ Gt(totalNetworkShare, Zero)
                    THEN [data[i] EXCEPT !.share =
                            Sub(data[i].share,
                                Mul(Div(data[i].share, totalNetworkShare),
                                    Sub(totalOrbitalShare, maxShare)))]
                ELSE data[i]]
        ELSE data

\* Orbital cap of one region (the body of the second for-loop of optimizeSplit)
RegionCap(data, region, brief) ==
    LET regionBrief == GetBrief(brief, region)
        orbitalChannels == SeqOfSet({i \in 1..Len(data) :
            data[i].region = region /\ data[i].selected /\ IsOrbitalName(data[i].channel)})
        networkChannels == SeqOfSet({i \in 1..Len(data) :
            data[i].region = region /\ data[i].selected /\ ~IsOrbitalName(data[i].channel)})
        totalOrbitalShare ==
            SumNums([k \in 1..Len(orbitalChannels) |-> OrZero(data[orbitalChannels[k]].share)])
        maxShare == Div(regionBrief.maxOrbitalShare, Num(100))
        reductionFactor == Div(maxShare, totalOrbitalShare)
        shareToRedistribute == Sub(totalOrbitalShare, maxShare)
        totalNetworkShare ==
            SumNums([k \in 1..Len(networkChannels) |-> OrZero(data[networkChannels[k]].share)])
        InSeq(i, sq) == \E k \in 1..Len(sq) : sq[k] = i
    IN  IF regionBrief.maxOrbitalShare = Null THEN data
        ELSE IF Gt(totalOrbitalShare, maxShare)
        THEN [i \in 1..Len(data) |->
                IF InSeq(i, orbitalChannels)
                    THEN [data[i] EXCEPT !.share = Mul(data[i].share, reductionFactor),
                                         !.comment = Comment("OrbitalCapped", regionBrief.maxOrbitalShare)]
                ELSE IF InSeq(i, networkChannels) /\ Gt(totalNetworkShare, Zero)
                    THEN [data[i] EXCEPT !.share =
                            Add(data[i].share,
                                Mul(Div(data[i].share, totalNetworkShare), shareToRedistribute))]
                ELSE data[i]]
        ELSE data

RECURSIVE RegionsCap(_, _, _)
RegionsCap(data, regions, brief) ==
    IF regions = <<>> THEN data
    ELSE Bind(RegionCap(data, Head(regions), brief),
              LAMBDA next : RegionsCap(next, Tail(regions), brief))

\* if (applyLimits) { for (const region of regions) ... } after the loop
CapPass(data, brief, applyLimits) ==
    IF applyLimits THEN RegionsCap(data, BriefRegions(brief), brief) ELSE data

\* A finalize step that computes the points of the selected records only
FinalizeSelectedOnly(data) ==
    [i \in 1..Len(data) |->
        IF data[i].selected
        THEN [data[i] EXCEPT !.trp = Mul(OrZero(data[i].share), Num(TotalTrp))]
        ELSE data[i]]

\* data.forEach(d => { if (d.selected) d.trp = ...; else { d.share = 0; d.trp = 0 } })
Finalize(data) ==
    [i \in 1..Len(data) |->
        IF data[i].selected
        THEN [data[i] EXCEPT !.trp = Mul(OrZero(data[i].share), Num(TotalTrp))]
        ELSE [data[i] EXCEPT !.share = Zero, !.trp = Zero]]

\* the comparator of the final sort is negative: a goes before b
SortsBefore(a, b) ==
    \/ a.sortOrder < b.sortOrder
    \/ a.sortOrder = b.sortOrder /\ Gt(OrZero(a.share), OrZero(b.share))

RECURSIVE SortData(_)
\* Array.prototype.sort with that comparator (stable)
SortData(data) ==
    IF Len(data) <= 1 THEN data
    ELSE LET rest == SortData(SubSeq(data, 1, Len(data) - 1))
             x == data[Len(data)]
             \* x goes after every element it does not sort before
             pos == Cardinality({k \in 1..Len(rest) : ~SortsBefore(x, rest[k])})
         IN  SubSeq(rest, 1, pos) \o <<x>> \o SubSeq(rest, pos + 1, Len(rest))

RECURSIVE OptimizeLoop(_, _, _, _, _, _)
\* the do/while loop: the list, the passes started and the last changesMade
OptimizeLoop(data, count, brief, weightingLogic, applyLimits, weights) ==
    LET started == count + 1
    IN  IF started > MaxIterations
        THEN [data |-> data, iterationCount |-> started, changesMade |-> FALSE]
        ELSE Bind(LoopPass(data, brief, weightingLogic, applyLimits, weights),
                  LAMBDA pass :
                  IF pass.changesMade
                  THEN OptimizeLoop(pass.data, started, brief, weightingLogic, applyLimits, weights)
                  ELSE [data |-> pass.data, iterationCount |-> started, changesMade |-> FALSE])

optimizeSplit(data, brief, weightingLogic, applyLimits, weights) ==
    Bind(data, LAMBDA given :
    Bind(OptimizeLoop(given, 0, brief, weightingLogic, applyLimits, weights).data, LAMBDA looped :
    Bind(CapPass(looped, brief, applyLimits), LAMBDA capped :
    Bind(Finalize(capped), LAMBDA finalized : SortData(finalized)))))

---------------------------------------------------------------------------
(* Selection filters and the wrappers that drive the optimizer *)

\* Cutoff selection of one region (the body of the for-loop of generateSingleSplit)
RegionCutoff(data, region, brief) ==
    LET regionBrief == GetBrief(brief, region)
        idx == {i \in 1..Len(data) : data[i].region = region /\ data[i].indexTcpp # Null}
        \* regionChannels.sort((a, b) => b.indexTcpp - a.indexTcpp), stable:
        \* the rank of i is the number of records sorted before it
        Rank(i) == Cardinality({j \in idx :
                        \/ Gt(data[j].indexTcpp, data[i].indexTcpp)
                        \/ data[j].indexTcpp = data[i].indexTcpp /\ j < i})
        cutoffValue == Coalesce(regionBrief.expensiveChannelCutoff, Num(DefaultCutoff))
        channelsToCut == Ceil(Mul(Num(Cardinality(idx)), Div(cutoffValue, Num(100))))
        channelsToExclude == {data[i].channel : i \in {j \in idx : Rank(j) < channelsToCut}}
    IN  IF idx = {} THEN data
        ELSE [i \in 1..Len(data) |->
                IF data[i].region # region THEN data[i]
                ELSE IF data[i].indexTcpp # Null
                    THEN IF data[i].channel \in channelsToExclude
                         THEN [data[i] EXCEPT !.selected = FALSE,
                                              !.comment = Comment("ExpensiveIndexTcpp", Null)]
                         ELSE [data[i] EXCEPT !.selected = TRUE]
                ELSE [data[i] EXCEPT !.selected = FALSE,
                                     !.comment = Comment("NoTcppData", Null)]]

RECURSIVE RegionsCutoff(_, _, _)
RegionsCutoff(data, regions, brief) ==
    IF regions = <<>> THEN data
    ELSE Bind(RegionCutoff(data, Head(regions), brief),
              LAMBDA next : RegionsCutoff(next, Tail(regions), brief))

\* Natural selection: every record with positive rating and positive price
NaturalSelect(data) ==
    [i \in 1..Len(data) |->
        IF Truthy(data[i].tvrTa) /\ Gt(data[i].tvrTa, Zero)
           /\ data[i].cpp # Null /\ Gt(data[i].cpp, Zero)
        THEN [data[i] EXCEPT !.selected = TRUE]
        ELSE [data[i] EXCEPT !.selected = FALSE, !.comment = Comment("NoDataOrZeroCpp", Null)]]

\* the initial selection of generateSingleSplit
InitialSelection(data, brief, weightingLogic) ==
    IF weightingLogic # "Natural"
    THEN RegionsCutoff(data, BriefRegions(brief), brief)
    ELSE NaturalSelect(data)

generateSingleSplit(data, brief, weightingLogic, applyLimits) ==
    Bind(data, LAMBDA given :
        optimizeSplit(InitialSelection(given, brief, weightingLogic), brief,
                      weightingLogic, applyLimits, NoWeights))

\* JSON.parse(JSON.stringify(list)) of a list of ChannelData
JsonCopy(data) ==
    [i \in 1..Len(data) |->
        [data[i] EXCEPT !.tvrTa = JsonNum(@), !.salesTvr = JsonNum(@), !.cpp = JsonNum(@),
                        !.aff = JsonNum(@), !.tcpp = JsonNum(@), !.indexTcpp = JsonNum(@),
                        !.weightedRating = JsonNum(@), !.share = JsonNum(@), !.trp = JsonNum(@)]]

\* An array object: which object it is and what it holds
Obj(ref, val) == [ref |-> ref, val |-> val]

\* No copy: the working list is the caller's array itself
JsonCloneAlias(obj) == obj

\* const data = JSON.parse(JSON.stringify(allChannels)): a new object
JsonClone(obj) == Obj("data", JsonCopy(obj.val))

\* What the caller's array holds once a call that left `written` in `data` returns
ArgAfter(arg, data, written) == IF data.ref = arg.ref THEN written ELSE arg.val

\* A selection that takes every listed channel, with or without tcpp
AllowListSelectAnyListed(data, selectedSet) ==
    [i \in 1..Len(data) |->
        IF data[i].channel \in selectedSet
        THEN [data[i] EXCEPT !.selected = TRUE]
        ELSE [data[i] EXCEPT !.selected = FALSE, !.comment = Comment("NotChosenByUser", Null)]]

\* the allow-list selection of generateConstructorSplit
AllowListSelect(data, selectedSet) ==
    [i \in 1..Len(data) |->
        IF Truthy(data[i].tcpp) /\ Gt(data[i].tcpp, Zero)
        THEN IF data[i].channel \in selectedSet
             THEN [data[i] EXCEPT !.selected = TRUE]
             ELSE [data[i] EXCEPT !.selected = FALSE, !.comment = Comment("NotChosenByUser", Null)]
        ELSE [data[i] EXCEPT !.selected = FALSE, !.comment = Comment("NoTcppData", Null)]]

generateConstructorSplit(allChannels, brief, selectedChannelNames, weightingLogic, weights) ==
    Bind(JsonClone(Obj("allChannels", allChannels)), LAMBDA data :
        optimizeSplit(AllowListSelect(data.val, selectedChannelNames), brief,
                      weightingLogic, TRUE, weights))

\* the forEach of generateManualSharesSplit; shares is a function from some
\* channels to percentages (a Map)
ManualShares(data, region, shares) ==
    [i \in 1..Len(data) |->
        IF data[i].region = region
        THEN IF data[i].channel \in DOMAIN shares /\ Gt(shares[data[i].channel], Zero)
             THEN [data[i] EXCEPT !.selected = TRUE,
                                  !.share = Div(shares[data[i].channel], Num(100)),
                                  !.trp = Mul(Div(shares[data[i].channel], Num(100)), Num(TotalTrp)),
                                  !.comment = Comment("ManualShare", Null)]
             ELSE [data[i] EXCEPT !.selected = FALSE, !.share = Zero, !.trp = Zero,
                                  !.comment = IF data[i].channel \in DOMAIN shares
                                              THEN Comment("ZeroShare", Null)
                                              ELSE Comment("NotChosen", Null)]
        ELSE [data[i] EXCEPT !.selected = FALSE, !.share = Zero, !.trp = Zero,
                             !.comment = NoComment]]

\* An explicit-shares recompute that hands its list to the optimizer
generateManualSharesSplitOptimized(allChannels, brief, shares) ==
    Bind(ManualShares(JsonClone(Obj("allChannels", allChannels)).val,
                      BriefRegions(brief)[1], shares),
         LAMBDA list : optimizeSplit(list, brief, "Natural", TRUE, NoWeights))

generateManualSharesSplit(allChannels, brief, shares) ==
    Bind(ManualShares(JsonClone(Obj("allChannels", allChannels)).val,
                      BriefRegions(brief)[1], shares),
         LAMBDA list : SortData(list))

\* splitConfigs of processFilesAndCalculate: name, logic, applyLimits
SplitNames == <<"TCPP", "Affinity", "Efficiency", "Natural">>
SplitLogic(name) == name
\* A configuration that turns the limits on for every variant
SplitApplyLimitsAll(name) == TRUE

SplitApplyLimits(name) == name # "Natural"

\* the splits object of processFilesAndCalculate
BaseSplits(initialData, brief) ==
    [name \in {SplitNames[i] : i \in 1..Len(SplitNames)} |->
        generateSingleSplit(JsonClone(Obj("initialData", initialData)).val, brief,
                            SplitLogic(name), SplitApplyLimits(name))]

\* initialData as the calls of generateSingleSplit leave it
InitialDataAfterSplits(initialData, splits) ==
    ArgAfter(Obj("initialData", initialData), JsonClone(Obj("initialData", initialData)),
             splits[SplitNames[Len(SplitNames)]])

\* A call that leaves the caller's list in reverse order
AllChannelsReversed(allChannels, splitData) ==
    [i \in 1..Len(allChannels) |-> allChannels[Len(allChannels) + 1 - i]]

\* allChannels as generateConstructorSplit or generateManualSharesSplit leaves it
AllChannelsAfter(allChannels, splitData) ==
    ArgAfter(Obj("allChannels", allChannels), JsonClone(Obj("allChannels", allChannels)), splitData)

---------------------------------------------------------------------------
(* Summary aggregator *)

Kpis(trps, avrTvr, affinity, cppTa, budget, costIndex) ==
    [trps |-> trps, avrTvr |-> avrTvr, affinity |-> affinity, cppTa |-> cppTa,
     budget |-> budget, costIndex |-> costIndex]

\* the selected records of a region in a split, in list order
SelectedOf(splitData, region) ==
    SeqOfSet({i \in 1..Len(splitData) : splitData[i].region = region /\ splitData[i].selected})

\* the KPI bundle of one split in one region (costIndex is the placeholder 0)
SplitKpis(splitData, region) ==
    LET sel == SelectedOf(splitData, region)
        n == Len(sel)
        D(k) == splitData[sel[k]]
        totalTrps == SumNums([k \in 1..n |-> OrZero(D(k).trp)])
        avrTvr == SumNums([k \in 1..n |-> Mul(OrZero(D(k).tvrTa), OrZero(D(k).share))])
        affinity == SumNums([k \in 1..n |-> Mul(OrZero(D(k).aff), OrZero(D(k).share))])
        cppTa == SumNums([k \in 1..n |-> Mul(OrZero(D(k).tcpp), OrZero(D(k).share))])
    IN  Kpis(totalTrps, avrTvr, affinity, cppTa, Mul(cppTa, totalTrps), Zero)

\* An index that divides by the smallest budget above 0
WithCostIndexOverMin(kpis) ==
    LET budgets == {kpis[n].budget : n \in {m \in DOMAIN kpis : Gt(kpis[m].budget, Zero)}}
        minBudget == CHOOSE x \in budgets : \A y \in budgets : ~Gt(x, y)
    IN  IF budgets # {}
        THEN [n \in DOMAIN kpis |-> [kpis[n] EXCEPT !.costIndex = Div(kpis[n].budget, minBudget)]]
        ELSE kpis

\* kpi.costIndex = kpi.budget / maxBudget over the budgets > 0, when there is one
WithCostIndex(kpis) ==
    LET budgets == {kpis[n].budget : n \in {m \in DOMAIN kpis : Gt(kpis[m].budget, Zero)}}
    IN  IF budgets # {} /\ Gt(MaxOf(budgets), Zero)
        THEN [n \in DOMAIN kpis |-> [kpis[n] EXCEPT !.costIndex = Div(kpis[n].budget, MaxOf(budgets))]]
        ELSE kpis

\* splits[splitName].find(d => d.region === region && d.channel === channel)?.share ?? dflt
FindShare(splitData, region, channel, dflt) ==
    LET hits == {i \in 1..Len(splitData) :
                    splitData[i].region = region /\ splitData[i].channel = channel}
    IN  IF hits = {} THEN dflt
        ELSE Coalesce(splitData[CHOOSE i \in hits : \A j \in hits : i <= j].share, dflt)

\* the RegionSummary of one region
RegionSummaryOf(splits, region) ==
    LET splitNames == DOMAIN splits
        allChannelsInRegion ==
            {splits[n][i].channel : <<n, i>> \in
                {<<m, j>> \in UNION {{m} \X (1..Len(splits[m])) : m \in splitNames} :
                    /\ splits[m][j].region = region
                    /\ (splits[m][j].selected \/ Gt(splits[m][j].share, Zero))}}
        withKpis == {n \in splitNames : Len(SelectedOf(splits[n], region)) > 0}
    IN  [region |-> region,
         channels |-> [c \in allChannelsInRegion |->
                         [n \in splitNames |-> FindShare(splits[n], region, c, Null)]],
         kpis |-> WithCostIndex([n \in withKpis |-> SplitKpis(splits[n], region)])]

\* Summaries only of the regions that have records
generateSummariesOfData(splits, brief) ==
    [region \in {brief[i].region : i \in {j \in 1..Len(brief) :
                    \E n \in DOMAIN splits : \E k \in 1..Len(splits[n]) :
                        splits[n][k].region = brief[j].region}}
        |-> RegionSummaryOf(splits, region)]

\* generateSummaries: one RegionSummary per region of the brief
generateSummaries(splits, brief) ==
    [region \in {brief[i].region : i \in 1..Len(brief)} |-> RegionSummaryOf(splits, region)]

\* the value processFilesAndCalculate resolves with
processFilesAndCalculate(rows, brief) ==
    Bind(BuildInitialData(rows, brief), LAMBDA initialData :
    Bind(BaseSplits(initialData, brief), LAMBDA splits :
        [present |-> TRUE, splits |-> splits,
         summaries |-> generateSummaries(splits, brief),
         initialData |-> InitialDataAfterSplits(initialData, splits)]))

---------------------------------------------------------------------------
(* Results screen: ResultsStep *)

NoResults == [present |-> FALSE, splits |-> <<>>, summaries |-> <<>>, initialData |-> <<>>]

\* no ad hoc recompute was made on this results screen
NoRecompute == [splitName |-> "none", region |-> "none", selectedChannels |-> {},
                logic |-> "none", weights |-> NoWeights, shares |-> <<>>, again |-> FALSE]

\* f with f[k] = v
Put(f, k, v) == [x \in (DOMAIN f) \cup {k} |-> IF x = k THEN v ELSE f[x]]

\* A copy that loses the comment of every record
JsonCopyResultsNoComment(res) ==
    [res EXCEPT !.splits = [n \in DOMAIN res.splits |->
                              [i \in 1..Len(res.splits[n]) |->
                                  [JsonCopy(res.splits[n])[i] EXCEPT !.comment = NoComment]]],
                !.initialData = JsonCopy(res.initialData)]

\* JSON.parse(JSON.stringify(prevResults))
JsonCopyResults(res) ==
    [res EXCEPT !.splits = [n \in DOMAIN res.splits |-> JsonCopy(res.splits[n])],
                !.initialData = JsonCopy(res.initialData)]

\* updateResultsWithNewSplit: the new localResults
updateResultsWithNewSplit(prevResults, region, splitName, splitData) ==
    LET hasKpis == Len(SelectedOf(splitData, region)) > 0
        newSplitKpis == SplitKpis(splitData, region)
        newResults == JsonCopyResults(prevResults)
        summary == newResults.summaries[region]
        kpis == IF hasKpis THEN WithCostIndex(Put(summary.kpis, splitName, newSplitKpis))
                ELSE summary.kpis
        allChannelsInRegion ==
            (DOMAIN summary.channels) \cup
            {splitData[i].channel : i \in {j \in 1..Len(splitData) : splitData[j].region = region}}
        channels ==
            [c \in allChannelsInRegion |->
                Put(IF c \in DOMAIN summary.channels THEN summary.channels[c] ELSE <<>>,
                    splitName, FindShare(splitData, region, c, Zero))]
    IN  [newResults EXCEPT
            !.splits = Put(newResults.splits, splitName, splitData),
            !.summaries = [newResults.summaries EXCEPT
                             ![region] = [summary EXCEPT !.kpis = kpis, !.channels = channels]]]

\* briefForRegion = { regionBriefs: { [activeRegion]: briefData.regionBriefs[activeRegion] } }
BriefForRegion(brief, region) == <<GetBrief(brief, region)>>

---------------------------------------------------------------------------
(* Inputs of the handlers *)

\* the ratings files: runs of at most MaxRows consecutive catalogue rows
Files ==
    {SubSeq(RowCatalog, i, j) : <<i, j>> \in
        {<<a, b>> \in (1..Len(RowCatalog)) \X (1..Len(RowCatalog)) : a <= b /\ b - a < MaxRows}}

\* the values of the three numeric fields of a region card
BriefOptions ==
    { <<Num(2), Null, Num(20)>>,       \* the card as handleRegionToggle creates it
      <<Null, Num(30), Null>>,         \* defaults by clearing, orbital cap 30 %
      <<Num(40), Num(30), Num(0)>>,
      <<Num(10), Null, Num(50)>> }

\* further values of the three fields, which take any number typed: no
\* cutoff under the default floor, a negative orbital cap with no floor, and
\* a floor of 11 %
OptimizerBriefOptions ==
    { <<Num(2), Null, Num(0)>>,
      <<Num(0), Num(-10), Null>>,
      <<Num(11), Null, Num(0)>> }

\* availableRegions of preParseRatingsFile
RegionsOf(rows) == {rows[i].region : i \in 1..Len(rows)}

\* the briefs of one or two region cards with field values from options
BriefsOf(rows, options) ==
    LET Card(r) == {RegionBrief(r, o[1], o[2], o[3]) : o \in options}
        R == RegionsOf(rows)
    IN  {<<c>> : c \in UNION {Card(r) : r \in R}} \cup
        {<<c1, c2>> : <<c1, c2>> \in
            {<<x, y>> \in (UNION {Card(r) : r \in R}) \X (UNION {Card(r) : r \in R}) :
                x.region # y.region}}

\* the briefs BriefStep can submit for a file: one card per chosen region
Briefs(rows) == BriefsOf(rows, BriefOptions)

\* the briefs of cards as handleRegionToggle creates them, with any audience
\* the select of a card offers (availableTAs)
BriefsAnyAudience(rows) ==
    LET Card(r) == {[RegionBrief(r, Num(2), Null, Num(20)) EXCEPT !.targetAudience = ta] :
                        ta \in TargetAudiences(Headers)}
        R == RegionsOf(rows)
    IN  {<<c>> : c \in UNION {Card(r) : r \in R}} \cup
        {<<c1, c2>> : <<c1, c2>> \in
            {<<x, y>> \in (UNION {Card(r) : r \in R}) \X (UNION {Card(r) : r \in R}) :
                x.region # y.region}}

\* the logic values of the selector of ConstructorPanel
ConstructorLogics == {"TCPP", "Affinity", "Effektivnost", "Custom"}

\* the blend weights ConstructorPanel can submit (they sum to 100)
WeightChoices == {Weights(40, 30, 30), Weights(0, 0, 100)}

\* the percentages typed into ManualSharesPanel
SharePercents == {0, 30, 70, 100}

\* the channel names shown by a panel: channelDetailsForRegion
ChannelsOfRegion(data, region) ==
    {data[i].channel : i \in {j \in 1..Len(data) : data[j].region = region}}

\* the channel names a panel lets the user tick or fill: the rows of
\* channelDetailsForRegion whose input is not disabled (!ch.tcpp || ch.tcpp <= 0)
EnabledChannels(data, region) ==
    {data[i].channel : i \in {j \in 1..Len(data) :
        data[j].region = region /\ Truthy(data[j].tcpp) /\ Gt(data[j].tcpp, Zero)}}

RECURSIVE SumShares(_)
\* Array.from(shares.values()).reduce(...)
SumShares(shares) ==
    IF DOMAIN shares = {} THEN 0
    ELSE LET c == CHOOSE x \in DOMAIN shares : TRUE
         IN  shares[c] + SumShares([x \in (DOMAIN shares) \ {c} |-> shares[x]])

\* the maps ManualSharesPanel submits: Math.abs(totalShare - 100) < 0.001
ShareMaps(channels) ==
    {m \in UNION {[D -> SharePercents] : D \in SUBSET channels} : SumShares(m) = 100}

\* App.availableRegions and App.availableTAs: null, or the sorted array of
\* a set of names (the array is the set in its one order)
NoList == [present |-> FALSE, items |-> {}]
Available(items) == [present |-> TRUE, items |-> items]

\* the errors preParseRatingsFile throws on a sheet that passed validation
NoRegionsError == [kind |-> "noRegions", ta |-> "", availableTAs |-> {}]
NoAudiencesError == [kind |-> "noAudiences", ta |-> "", availableTAs |-> {}]

\* preParseRatingsFile: the regions of the rows (blank cells skipped) and the
\* audiences of the headers, or the error thrown
preParseRatingsFile(rows, headers) ==
    LET regionSet == {r \in RegionsOf(rows) : r # ""}
        taSet == TargetAudiences(headers)
    IN  IF regionSet = {}
        THEN [error |-> NoRegionsError, regions |-> {}, targetAudiences |-> {}]
        ELSE IF taSet = {}
        THEN [error |-> NoAudiencesError, regions |-> {}, targetAudiences |-> {}]
        ELSE [error |-> NoError, regions |-> regionSet, targetAudiences |-> taSet]

\* what handlePreParseSubmit sets after its await: try, or catch
PreParseOutcome(rows) ==
    LET parsed == preParseRatingsFile(rows, Headers)
    IN  IF parsed.error = NoError
        THEN [availableRegions |-> Available(parsed.regions),
              availableTAs |-> Available(parsed.targetAudiences),
              step |-> "brief", error |-> NoError]
        ELSE [availableRegions |-> NoList, availableTAs |-> NoList,
              step |-> "upload", error |-> parsed.error]

\* the stored set when "brief" and "results" are not taken out of it
StepsAfterUploadKeepingLaterSteps(closure) == closure \cup {"instruction", "upload"}

\* the completed steps handlePreParseSubmit stores, from the set its closure holds
StepsAfterUpload(closure) == (closure \cup {"instruction", "upload"}) \ {"brief", "results"}

---------------------------------------------------------------------------
(* Handlers *)

Init ==
    /\ step = "instruction"
    /\ completedSteps = {"instruction"}
    /\ ratings = <<>>
    /\ briefData = <<>>
    /\ results = NoResults
    /\ error = NoError
    /\ availableRegions = NoList
    /\ availableTAs = NoList
    /\ isLoading = FALSE
    /\ reading = {}
    /\ localResults = NoResults
    /\ activeRegion = "none"
    /\ recomputes = 0
    /\ submitted = NoRecompute
    /\ optData = <<>>
    /\ optBrief = <<>>
    /\ optLogic = "none"
    /\ optLimits = FALSE
    /\ optWeights = NoWeights
    /\ optCaller = "none"
    /\ iterationCount = 0
    /\ changesMade = FALSE
    /\ optPc = "idle"

\* ResultsStep is unmounted: its state is gone
Unmounted ==
    /\ localResults' = NoResults
    /\ activeRegion' = "none"
    /\ recomputes' = 0
    /\ submitted' = NoRecompute

\* App.handleGoToUpload (the button of InstructionStep)
HandleGoToUpload ==
    /\ step = "instruction"
    /\ completedSteps' = completedSteps \cup {"instruction"}
    /\ step' = "upload"
    /\ UNCHANGED <<ratings, briefData, results, error, availableRegions, availableTAs,
                   isLoading, reading, screenVars, optVars>>

\* App.handleStepNavigation: a stepper click or a Back button
HandleStepNavigation ==
    /\ \E targetStep \in {"instruction", "upload", "brief", "results"} :
        /\ \/ step # "instruction" /\ targetStep \in {"upload", "brief", "results"}
              /\ targetStep # step
           \/ step = "upload" /\ targetStep = "instruction"
           \/ step = "brief" /\ targetStep = "upload"
        /\ targetStep \in completedSteps
        /\ step' = targetStep
    /\ error' = NoError
    /\ Unmounted
    /\ UNCHANGED <<completedSteps, ratings, briefData, results, availableRegions,
                   availableTAs, isLoading, reading, optVars>>

\* App.handlePreParseSubmit, called by a submit of UploadStep whose reading
\* ended before the next event: new files drop the brief and the results
HandlePreParseSubmit ==
    /\ step = "upload"
    /\ \E rows \in Files : \E outcome \in {PreParseOutcome(rows)} :
        /\ ratings' = rows
        /\ briefData' = <<>>
        /\ results' = NoResults
        /\ completedSteps' = StepsAfterUpload(completedSteps)
        /\ availableRegions' = outcome.availableRegions
        /\ availableTAs' = outcome.availableTAs
        /\ error' = outcome.error
        /\ step' = outcome.step
    /\ UNCHANGED <<isLoading, reading, screenVars, optVars>>

\* App.handleCalculate(brief); on success ResultsStep mounts on the results
Calculate(brief) ==
    /\ step = "brief"
    /\ ratings # <<>>
    /\ briefData' = brief
    /\ IF MissingColumns(Headers, brief) = NoError
       THEN /\ error' = NoError
            /\ \E computed \in {processFilesAndCalculate(ratings, brief)} :
                  /\ results' = computed
                  /\ localResults' = computed
            /\ activeRegion' = brief[1].region
            /\ completedSteps' = completedSteps \cup {"brief"}
            /\ step' = "results"
       ELSE /\ error' = MissingColumns(Headers, brief)
            /\ step' = "brief"
            /\ UNCHANGED <<results, completedSteps, localResults, activeRegion>>
    /\ recomputes' = 0
    /\ submitted' = NoRecompute
    /\ UNCHANGED <<ratings, availableRegions, availableTAs, isLoading, reading, optVars>>

\* the submit button of BriefStep
HandleCalculate == \E brief \in Briefs(ratings) : Calculate(brief)

\* App.handleReset (the button of ResultsStep)
HandleReset ==
    /\ step = "results"
    /\ step' = "instruction"
    /\ completedSteps' = {"instruction"}
    /\ briefData' = <<>>
    /\ ratings' = <<>>
    /\ results' = NoResults
    /\ error' = NoError
    /\ isLoading' = FALSE
    /\ availableRegions' = NoList
    /\ availableTAs' = NoList
    /\ Unmounted
    /\ UNCHANGED <<reading, optVars>>

\* ResultsStep: a click on a region tab
SetActiveRegion ==
    /\ step = "results"
    /\ \E r \in {briefData[i].region : i \in 1..Len(briefData)} :
        /\ r # activeRegion
        /\ activeRegion' = r
    /\ UNCHANGED <<appVars, reading, localResults, recomputes, submitted, optVars>>

\* The arguments of an ad hoc recompute: the variant written, the active
\* region, the allow-list, logic and weights of ConstructorPanel or the map
\* of ManualSharesPanel
Recompute(splitName, region, selectedChannels, logic, weights, shares) ==
    [splitName |-> splitName, region |-> region, selectedChannels |-> selectedChannels,
     logic |-> logic, weights |-> weights, shares |-> shares, again |-> FALSE]

\* the arguments of this recompute, marked when the recompute before it on
\* this screen had the same arguments
After(before, now) == [now EXCEPT !.again = ([before EXCEPT !.again = FALSE] = now)]

\* ResultsStep.handleCalculateConstructorSplit, called by the button of
\* ConstructorPanel (disabled while nothing is ticked)
CalculateConstructorSplit ==
    \E selectedChannels \in (SUBSET EnabledChannels(localResults.initialData, activeRegion)) \ {{}},
       logic \in ConstructorLogics,
       w \in WeightChoices \cup {NoWeights} :
        /\ w.given <=> logic = "Custom"
        /\ \E splitData \in {generateConstructorSplit(localResults.initialData,
                                   BriefForRegion(briefData, activeRegion),
                                   selectedChannels, logic, w)} :
           \E prevResults \in {[localResults EXCEPT
                                   !.initialData = AllChannelsAfter(@, splitData)]} :
              localResults' = updateResultsWithNewSplit(prevResults, activeRegion,
                                                        "Constructor", splitData)
        /\ submitted' = After(submitted, Recompute("Constructor", activeRegion,
                                                   selectedChannels, logic, w, <<>>))

\* ResultsStep.handleCalculateManualSharesSplit, called by the button of
\* ManualSharesPanel (disabled unless the percentages add up to 100)
CalculateManualSharesSplit ==
    \E shares \in ShareMaps(EnabledChannels(localResults.initialData, activeRegion)) :
        /\ \E splitData \in {generateManualSharesSplit(localResults.initialData,
                                BriefForRegion(briefData, activeRegion),
                                [c \in DOMAIN shares |-> Num(shares[c])])} :
           \E prevResults \in {[localResults EXCEPT
                                   !.initialData = AllChannelsAfter(@, splitData)]} :
              localResults' = updateResultsWithNewSplit(prevResults, activeRegion,
                                                        "Manual", splitData)
        /\ submitted' = After(submitted, Recompute("Manual", activeRegion, {},
                                                   "none", NoWeights, shares))

\* the button of ConstructorPanel on the results step
HandleCalculateConstructorSplit ==
    /\ step = "results"
    /\ recomputes < MaxRecomputes
    /\ CalculateConstructorSplit
    /\ recomputes' = recomputes + 1
    /\ UNCHANGED <<appVars, reading, activeRegion, optVars>>

\* the button of ManualSharesPanel on the results step
HandleCalculateManualSharesSplit ==
    /\ step = "results"
    /\ recomputes < MaxRecomputes
    /\ CalculateManualSharesSplit
    /\ recomputes' = recomputes + 1
    /\ UNCHANGED <<appVars, reading, activeRegion, optVars>>

Next ==
    \/ HandleGoToUpload
    \/ HandleStepNavigation
    \/ HandlePreParseSubmit
    \/ HandleCalculate
    \/ HandleReset
    \/ SetActiveRegion
    \/ HandleCalculateConstructorSplit
    \/ HandleCalculateManualSharesSplit

Spec == Init /\ [][Next]_vars

---------------------------------------------------------------------------
(* The wizard of App with every audience the brief form offers *)

\* the submit button of BriefStep, the audience of a card chosen freely
HandleCalculateAnyAudience == \E brief \in BriefsAnyAudience(ratings) : Calculate(brief)

NextApp ==
    \/ HandleGoToUpload
    \/ HandleStepNavigation
    \/ HandlePreParseSubmit
    \/ HandleCalculateAnyAudience
    \/ HandleReset

SpecApp == Init /\ [][NextApp]_vars

---------------------------------------------------------------------------
(* The results screen from its mount on, with the way back to the brief *)

\* ResultsStep mounts on the results of a batch compute
InitScreen ==
    /\ step = "results"
    /\ completedSteps = {"instruction", "upload", "brief"}
    /\ error = NoError
    /\ \E rows \in Files : \E brief \in Briefs(rows) :
        \E computed \in {processFilesAndCalculate(rows, brief)} :
            /\ ratings = rows
            /\ availableRegions = PreParseOutcome(rows).availableRegions
            /\ availableTAs = PreParseOutcome(rows).availableTAs
            /\ briefData = brief
            /\ results = computed
            /\ localResults = computed
            /\ activeRegion = brief[1].region
    /\ isLoading = FALSE
    /\ reading = {}
    /\ recomputes = 0
    /\ submitted = NoRecompute
    /\ optData = <<>>
    /\ optBrief = <<>>
    /\ optLogic = "none"
    /\ optLimits = FALSE
    /\ optWeights = NoWeights
    /\ optCaller = "none"
    /\ iterationCount = 0
    /\ changesMade = FALSE
    /\ optPc = "idle"

\* the button of ConstructorPanel, pressed up to MaxScreenRecomputes times
RepeatConstructorSplit ==
    /\ recomputes < MaxScreenRecomputes
    /\ CalculateConstructorSplit
    /\ recomputes' = recomputes + 1
    /\ UNCHANGED <<appVars, reading, activeRegion, optVars>>

\* the button of ManualSharesPanel, pressed up to MaxScreenRecomputes times
RepeatManualSharesSplit ==
    /\ recomputes < MaxScreenRecomputes
    /\ CalculateManualSharesSplit
    /\ recomputes' = recomputes + 1
    /\ UNCHANGED <<appVars, reading, activeRegion, optVars>>

NextScreen ==
    \/ HandleStepNavigation
    \/ HandleCalculate
    \/ SetActiveRegion
    \/ RepeatConstructorSplit
    \/ RepeatManualSharesSplit

SpecScreen == InitScreen /\ [][NextScreen]_vars

---------------------------------------------------------------------------
(* optimizeSplit, pass by pass *)

\* The application state while one call of optimizeSplit is followed
AppIdle ==
    /\ step = "brief"
    /\ completedSteps = {"instruction", "upload"}
    /\ briefData = <<>>
    /\ results = NoResults
    /\ error = NoError
    /\ isLoading = FALSE
    /\ reading = {}
    /\ localResults = NoResults
    /\ activeRegion = "none"
    /\ recomputes = 0

\* optimizeSplit is entered from generateSingleSplit (one of the four
\* systematic variants) or from generateConstructorSplit
InitOpt ==
    /\ AppIdle
    /\ \E rows \in Files \cup {EfficiencyExample, SameChannelExample, DuplicateNameExample} :
       \E brief \in BriefsOf(rows, BriefOptions \cup OptimizerBriefOptions) :
       LET initialData == BuildInitialData(rows, brief)
       IN  /\ ratings = rows
           /\ availableRegions = PreParseOutcome(rows).availableRegions
           /\ availableTAs = PreParseOutcome(rows).availableTAs
           /\ \/ \E name \in {SplitNames[i] : i \in 1..Len(SplitNames)} :
                    /\ optCaller = "single"
                    /\ submitted = NoRecompute
                    /\ optBrief = brief
                    /\ optLogic = name
                    /\ optLimits = SplitApplyLimits(name)
                    /\ optWeights = NoWeights
                    /\ optData = InitialSelection(JsonCopy(initialData), brief, name)
              \/ \E i \in 1..Len(brief) : \E logic \in ConstructorLogics :
                 \E w \in IF logic = "Custom" THEN WeightChoices ELSE {NoWeights} :
                 \E allow \in SUBSET ChannelsOfRegion(initialData, brief[i].region) :
                    /\ optCaller = "constructor"
                    /\ submitted = Recompute("Constructor", brief[i].region, allow,
                                             logic, w, <<>>)
                    /\ optBrief = <<brief[i]>>
                    /\ optLogic = logic
                    /\ optLimits = TRUE
                    /\ optWeights = w
                    /\ optData = AllowListSelect(JsonCopy(initialData), allow)
    /\ iterationCount = 0
    /\ changesMade = FALSE
    /\ optPc = "loop"

\* one trip through the do/while body
OptLoop ==
    /\ optPc = "loop"
    /\ iterationCount' = iterationCount + 1
    /\ IF iterationCount' > MaxIterations
       THEN /\ changesMade' = FALSE
            /\ optData' = optData
            /\ optPc' = "cap"
       ELSE \E pass \in {LoopPass(optData, optBrief, optLogic, optLimits, optWeights)} :
                /\ optData' = pass.data
                /\ changesMade' = pass.changesMade
                /\ optPc' = IF pass.changesMade THEN "loop" ELSE "cap"
    /\ UNCHANGED <<appVars, reading, screenVars, optBrief, optLogic, optLimits, optWeights, optCaller>>

\* the orbital-cap pass
OptCap ==
    /\ optPc = "cap"
    /\ optData' = CapPass(optData, optBrief, optLimits)
    /\ optPc' = "finalize"
    /\ UNCHANGED <<appVars, reading, screenVars, optBrief, optLogic, optLimits, optWeights, optCaller,
                   iterationCount, changesMade>>

\* finalize, sort and return
OptFinalize ==
    /\ optPc = "finalize"
    /\ optData' = SortData(Finalize(optData))
    /\ optPc' = "done"
    /\ UNCHANGED <<appVars, reading, screenVars, optBrief, optLogic, optLimits, optWeights, optCaller,
                   iterationCount, changesMade>>

NextOpt == OptLoop \/ OptCap \/ OptFinalize

\* where the call is: its position in the code and the passes it has started
optPos == <<optPc, iterationCount>>

\* The call moves on. optimizeSplit is synchronous code: nothing suspends it,
\* so a call that has not returned takes its next step. Each step of NextOpt
\* is guarded by optPc alone and changes optPos.
Advance ==
    /\ optPc \in {"loop", "cap", "finalize"}
    /\ optPc' \in {"loop", "cap", "finalize", "done"}
    /\ iterationCount' \in {iterationCount, iterationCount + 1}

SpecOpt == InitOpt /\ [][NextOpt]_vars /\ WF_optPos(Advance)

---------------------------------------------------------------------------
(* Properties of the computed variants *)

BatchVariants == {SplitNames[i] : i \in 1..Len(SplitNames)}

RegionsIn(data) == {data[i].region : i \in 1..Len(data)}

\* the sum of the shares of the records of a region picked by Keep(_)
ShareSum(data, region, Keep(_)) ==
    LET idx == SeqOfSet({i \in 1..Len(data) : data[i].region = region /\ Keep(data[i])})
    IN  SumNums([k \in 1..Len(idx) |-> ToNum(data[idx[k]].share)])

IsSelected(d) == d.selected
IsSelectedOrbital(d) == d.selected /\ IsOrbitalName(d.channel)
IsSelectedNetwork(d) == d.selected /\ ~IsOrbitalName(d.channel)

\* C1: in every variant of the full batch compute and of an allow-list
\* recompute, the shares of a region's selected records add up to 0 or to 1.
ShareSumIsZeroOrOne ==
    localResults.present =>
        \A v \in (DOMAIN localResults.splits) \cap (BatchVariants \cup {"Constructor"}) :
            \A r \in RegionsIn(localResults.splits[v]) :
                ShareSum(localResults.splits[v], r, IsSelected) \in {Zero, One}

\* C2: in every record of every variant (batch, allow-list, explicit shares),
\* selected = false implies share = 0 and trp = 0.
UnselectedHasNoShare ==
    localResults.present =>
        \A v \in DOMAIN localResults.splits :
            \A i \in 1..Len(localResults.splits[v]) :
                LET d == localResults.splits[v][i]
                IN  ~d.selected => d.share = Zero /\ d.trp = Zero

\* a recomputed variant holds a record the optimizer deselected after it had
\* given it a positive share
UnselectedAfterFloorReached ==
    /\ localResults.present
    /\ "Constructor" \in DOMAIN localResults.splits
    /\ \E i \in 1..Len(localResults.splits["Constructor"]) :
          LET d == localResults.splits["Constructor"][i]
          IN  ~d.selected /\ d.comment.kind = "LowShare" /\ Gt(d.weightedRating, Zero)

\* C3: in every variant of the full batch compute, Natural included, a region
\* with an orbital cap and a selected orbital channel has an orbital share sum
\* of at most the cap.
OrbitalCapRespected ==
    results.present =>
        \A v \in BatchVariants : \A i \in 1..Len(briefData) :
            LET data == results.splits[v]
                region == briefData[i].region
            IN  (/\ briefData[i].maxOrbitalShare # Null
                 /\ \E k \in 1..Len(data) : data[k].region = region /\ IsSelectedOrbital(data[k]))
                => Le(ShareSum(data, region, IsSelectedOrbital),
                      Div(briefData[i].maxOrbitalShare, Num(100)))

\* C5: the full batch compute runs each of the four variants, Natural
\* included, through the optimizer with the limits enabled.
BatchRunsWithLimits ==
    results.present =>
        \A v \in BatchVariants :
            results.splits[v] =
                generateSingleSplit(JsonCopy(BuildInitialData(ratings, briefData)),
                                    briefData, SplitLogic(v), TRUE)

WithTcpp(data, region) == {i \in 1..Len(data) : data[i].region = region /\ data[i].tcpp # Null}
TopChannels(data, region) ==
    {data[i].channel : i \in {j \in 1..Len(data) :
                                data[j].region = region /\ data[j].indexTcpp = One}}

IndexInRange(data) ==
    \A i \in 1..Len(data) :
        data[i].indexTcpp # Null => Gt(data[i].indexTcpp, Zero) /\ Le(data[i].indexTcpp, One)

\* C8 as stated: every defined index is in (0,1] and a region with a defined
\* tcpp has exactly one channel of index 1.0.
ExactlyOneTopChannel ==
    results.present =>
        /\ IndexInRange(results.initialData)
        /\ \A r \in RegionsIn(results.initialData) :
              WithTcpp(results.initialData, r) # {}
                  => Cardinality(TopChannels(results.initialData, r)) = 1

\* C8: every defined index is in (0,1]; a region with a defined tcpp has at
\* least one channel of index 1.0, and the records of index 1.0 are exactly
\* those whose tcpp is the region's maximum.
TopChannelsAreTheMaxima ==
    results.present =>
        /\ IndexInRange(results.initialData)
        /\ \A r \in RegionsIn(results.initialData) :
              LET data == results.initialData
                  idx == WithTcpp(data, r)
              IN  idx # {} =>
                    /\ TopChannels(data, r) # {}
                    /\ \A i \in idx :
                          data[i].indexTcpp = One <=> \A j \in idx : ~Lt(data[i].tcpp, data[j].tcpp)

\* two channels of different names share the maximum of a region
TwoTopChannelsReached ==
    /\ results.present
    /\ \E r \in RegionsIn(results.initialData) :
          Cardinality(TopChannels(results.initialData, r)) >= 2

\* C10 as stated: after any sequence of computes and recomputes the base
\* snapshot is the list the metric calculator built.
BaseSnapshotIdentical ==
    localResults.present =>
        localResults.initialData = BuildInitialData(ratings, briefData)

\* C10: after any sequence of computes and recomputes the base snapshot holds
\* what the metric calculator built, as a JSON copy reads it (a rating that is
\* not a number reads as null); the selection, share, weighted rating, comment
\* and points of a base record are never written.
BaseSnapshotKept ==
    /\ results.present =>
          results.initialData = BuildInitialData(ratings, briefData)
    /\ localResults.present =>
          /\ localResults.initialData = JsonCopy(BuildInitialData(ratings, briefData))
                \/ localResults.initialData = BuildInitialData(ratings, briefData)
          /\ \A i \in 1..Len(localResults.initialData) :
                LET d == localResults.initialData[i]
                IN  /\ ~d.selected /\ d.comment = NoComment
                    /\ d.share = Null /\ d.weightedRating = Null /\ d.trp = Null

\* a recompute has produced a variant with a selected record
RecomputeSelectedReached ==
    /\ localResults.present
    /\ recomputes > 0
    /\ \E v \in (DOMAIN localResults.splits) \ BatchVariants :
          \E i \in 1..Len(localResults.splits[v]) : localResults.splits[v][i].selected

---------------------------------------------------------------------------
(* Properties of one call of optimizeSplit *)

\* the floor of a record's region, as a fraction
FloorOf(d) == Div(Coalesce(GetBrief(optBrief, d.region).minChannelShare, Num(2)), Num(100))

\* the shares the current pass computes before it applies the floor
RatedNow == RegionsPass(optData, BriefRegions(optBrief), optLogic, optWeights)

\* a pass with the limits on deselects every selected record whose computed
\* share is below the floor
PassDeselectsBelowFloor ==
    (optPc = "loop" /\ optLimits /\ iterationCount' <= 20) =>
        \A i \in 1..Len(optData) :
            (/\ HasBrief(optBrief, RatedNow[i].region)
             /\ RatedNow[i].selected /\ RatedNow[i].share # Null
             /\ Lt(RatedNow[i].share, FloorOf(RatedNow[i])))
            => ~optData'[i].selected

\* the loop has ended because a pass deselected nothing
LoopConverged == optPc = "cap" /\ optLimits /\ iterationCount <= 20

\* C4 as stated: with the limits on, a pass deselects every selected channel
\* whose computed share is below the floor, and when the loop ends because a
\* pass deselected nothing every selected channel has a share at or above the
\* floor.
FloorHoldsAtConvergence ==
    /\ [][PassDeselectsBelowFloor]_vars
    /\ [](LoopConverged =>
            \A i \in 1..Len(optData) :
                (optData[i].selected /\ HasBrief(optBrief, optData[i].region))
                => /\ optData[i].share # Null
                   /\ ~Lt(optData[i].share, FloorOf(optData[i])))

\* C4: with the limits on, a pass deselects every selected channel whose
\* computed share is below the floor; when the loop ends because a pass
\* deselected nothing, every selected channel whose share has been computed is
\* at or above the floor, and a selected channel has no share only where the
\* selected channels of its region have no positive weighted rating.
FloorHoldsWhereComputed ==
    /\ [][PassDeselectsBelowFloor]_vars
    /\ [](LoopConverged =>
            \A i \in 1..Len(optData) :
                (optData[i].selected /\ HasBrief(optBrief, optData[i].region))
                => IF optData[i].share # Null
                   THEN ~Lt(optData[i].share, FloorOf(optData[i]))
                   ELSE \A j \in 1..Len(optData) :
                           (optData[j].region = optData[i].region /\ optData[j].selected)
                           => ~Gt(OrZero(optData[j].weightedRating), Zero))

\* the loop has converged after a pass that deselected two channels at once,
\* and a channel with a share is still selected
ConvergedAfterFloorReached ==
    /\ LoopConverged
    /\ iterationCount >= 2
    /\ Cardinality({i \in 1..Len(optData) : optData[i].comment.kind = "LowShare"}) >= 2
    /\ \E i \in 1..Len(optData) : optData[i].selected /\ optData[i].share # Null

\* the top of the cutoff: the records of a region with an index, and how many to cut
Indexed(data, region) ==
    {i \in 1..Len(data) : data[i].region = region /\ data[i].indexTcpp # Null}
ToCut(data, regionBrief) ==
    Ceil(Mul(Num(Cardinality(Indexed(data, regionBrief.region))),
             Div(Coalesce(regionBrief.expensiveChannelCutoff, Num(20)), Num(100))))

\* C7: the initial selection of a cutoff variant deselects, in each region,
\* exactly ceil(n * cutoff / 100) records of highest index among the n records
\* with an index, and every record without an index, and selects the others.
CutoffDeselectsExactlyTop ==
    (optCaller = "single" /\ optLogic # "Natural" /\ optPc = "loop" /\ iterationCount = 0) =>
        \A b \in 1..Len(optBrief) :
            LET region == optBrief[b].region
                idx == Indexed(optData, region)
                cut == {i \in idx : ~optData[i].selected}
            IN  /\ Cardinality(cut) = ToCut(optData, optBrief[b])
                /\ \A i \in cut : \A j \in idx \ cut :
                      ~Lt(optData[i].indexTcpp, optData[j].indexTcpp)
                /\ \A i \in 1..Len(optData) :
                      (optData[i].region = region /\ optData[i].indexTcpp = Null)
                      => ~optData[i].selected

\* a pass leaves the loop only at the cap or when it deselected nothing, and
\* stays in the loop only when it deselected something
PassEndsOnNoChange ==
    optPc = "loop" =>
        LET deselected == \E i \in 1..Len(optData) : optData[i].selected /\ ~optData'[i].selected
        IN  /\ optPc' = "cap" => (iterationCount' > 20 \/ ~deselected)
            /\ optPc' = "loop" => (iterationCount' <= 20 /\ deselected)

\* C9: the loop makes at most 20 passes, ends after a pass that deselected no
\* channel or at the cap, and optimizeSplit always returns.
LoopBoundedAndTerminates ==
    /\ [](iterationCount <= 21)
    /\ [][PassEndsOnNoChange]_vars
    /\ <>(optPc = "done")

\* a call that repeated the pass after a deselection has returned
RepeatedLoopReturned == optPc = "done" /\ iterationCount >= 2

---------------------------------------------------------------------------
(* Properties of the wizard *)

\* the brief asks for an audience without its average or its total column
AudienceWithoutColumns(brief) ==
    \E i \in 1..Len(brief) :
        ~(findAvgTAColumn(Headers, brief[i].targetAudience) /\
          findTotalTAColumn(Headers, brief[i].targetAudience))

\* C19: when the submitted brief names, for any of its regions, an audience
\* whose average or total column is missing, the compute fails: the error
\* names such an audience and lists the audiences of the headers, the
\* application stays on the brief step, and the stored results, the results
\* screen and the completed steps are what they were.
MissingAudienceFailsOnBrief ==
    [][(step = "brief" /\ step' # "upload" /\ AudienceWithoutColumns(briefData'))
        => /\ step' = "brief"
           /\ error'.kind = "missingColumns"
           /\ \E i \in 1..Len(briefData') :
                 /\ error'.ta = briefData'[i].targetAudience
                 /\ ~(findAvgTAColumn(Headers, error'.ta) /\ findTotalTAColumn(Headers, error'.ta))
           /\ error'.availableTAs = {h.ta : h \in Headers}
           /\ results' = results
           /\ localResults' = localResults
           /\ completedSteps' = completedSteps]_vars

\* a compute failed on a missing column while earlier results were stored
FailedWithStoredResults ==
    /\ step = "brief"
    /\ error.kind = "missingColumns"
    /\ results.present
    /\ Len(briefData) = 2
    /\ findAvgTAColumn(Headers, briefData[1].targetAudience)
    /\ findTotalTAColumn(Headers, briefData[1].targetAudience)

\* no row of the file gives a record of the region: each row is of another
\* region or is skipped by the row loop
NoRowOf(rows, region) ==
    \A i \in 1..Len(rows) : rows[i].region # region \/ IncludesSlash(rows[i].base)

\* C18: when the submitted brief has a region for which the file gives no
\* record, the batch compute succeeds (the results step opens without an
\* error), no record of that region is in any of the four variants, and the
\* region's summary is there with no channel rows and no KPI bundle.
RegionWithoutRowsIsEmpty ==
    [][(step = "brief" /\ step' # "upload" /\ briefData' # <<>>)
        => \A i \in 1..Len(briefData') :
            LET region == briefData'[i].region
            IN  NoRowOf(ratings, region) =>
                /\ step' = "results"
                /\ error' = NoError
                /\ results'.present
                /\ DOMAIN results'.splits = BatchVariants
                /\ \A n \in BatchVariants : \A k \in 1..Len(results'.splits[n]) :
                        results'.splits[n][k].region # region
                /\ region \in DOMAIN results'.summaries
                /\ results'.summaries[region].region = region
                /\ DOMAIN results'.summaries[region].channels = {}
                /\ DOMAIN results'.summaries[region].kpis = {}]_vars

\* results of a brief with a region without records next to a region with
\* selected channels
EmptyRegionBesideFilledReached ==
    /\ step = "results"
    /\ results.present
    /\ \E i, j \in 1..Len(briefData) :
        /\ NoRowOf(ratings, briefData[i].region)
        /\ \E k \in 1..Len(results.splits["TCPP"]) :
              /\ results.splits["TCPP"][k].region = briefData[j].region
              /\ results.splits["TCPP"][k].selected

---------------------------------------------------------------------------
(* Properties of the results screen *)

AdHocVariants == {"Constructor", "Manual"}

\* the step is an ad hoc recompute
RecomputeStep == recomputes' = recomputes + 1

\* C11: an ad hoc recompute, which adds or replaces the variant it names,
\* leaves every other variant of the result set in place with the records
\* it had.
OtherVariantsUntouched ==
    [][RecomputeStep =>
        /\ submitted'.splitName \in AdHocVariants
        /\ DOMAIN localResults'.splits = DOMAIN localResults.splits \cup {submitted'.splitName}
        /\ \A n \in DOMAIN localResults.splits :
              n # submitted'.splitName => localResults'.splits[n] = localResults.splits[n]]_vars

\* the explicit-shares variant was written while the result set held an
\* allow-list variant with a selected record carrying a comment-free share
SecondAdHocVariantAdded ==
    /\ recomputes = 2
    /\ submitted.splitName = "Manual"
    /\ "Constructor" \in DOMAIN localResults.splits
    /\ \E k \in 1..Len(localResults.splits["Constructor"]) :
          /\ localResults.splits["Constructor"][k].selected
          /\ Gt(localResults.splits["Constructor"][k].share, Zero)

\* C12: whatever ad hoc recomputes were made, and for whichever regions, the
\* summaries the results screen stores are, for every region and variant,
\* the KPI bundles and channel-by-variant shares that generateSummaries
\* derives from the records the variants hold now.
StoredSummariesMatchRecords ==
    localResults.present =>
        localResults.summaries = generateSummaries(localResults.splits, briefData)

\* C13: the explicit-shares variant holds exactly what was typed: a record
\* of the active region whose channel got a percentage above 0 is selected
\* with share = percentage / 100 and points = share * 1000, and every other
\* record, of this region or another, is unselected with share 0 and points
\* 0. The optimizer has no part in it: neither the floor nor the orbital cap
\* of the brief changes a typed share.
ManualSharesTakenAsTyped ==
    submitted.splitName = "Manual" =>
        \A k \in 1..Len(localResults.splits["Manual"]) :
            LET d == localResults.splits["Manual"][k]
                typed == /\ d.region = submitted.region
                         /\ d.channel \in DOMAIN submitted.shares
                         /\ submitted.shares[d.channel] > 0
            IN  IF typed
                THEN /\ d.selected
                     /\ d.share = Rat(submitted.shares[d.channel], 100)
                     /\ d.trp = Mul(d.share, Num(1000))
                ELSE /\ ~d.selected
                     /\ d.share = Zero
                     /\ d.trp = Zero

\* a typed share below the floor of the brief stands beside an orbital
\* channel typed above the orbital cap, with another region in the list
TypedShareBelowFloorKept ==
    /\ submitted.splitName = "Manual"
    /\ \E k, m, o \in 1..Len(localResults.splits["Manual"]) :
        LET d == localResults.splits["Manual"][k]
            e == localResults.splits["Manual"][m]
            regionBrief == GetBrief(briefData, submitted.region)
        IN  /\ d.region = submitted.region
            /\ d.selected
            /\ Lt(d.share, MinShare(regionBrief))
            /\ e.region = submitted.region
            /\ e.selected
            /\ IsOrbitalName(e.channel)
            /\ regionBrief.maxOrbitalShare # Null
            /\ Gt(e.share, Div(regionBrief.maxOrbitalShare, Num(100)))
            /\ localResults.splits["Manual"][o].region # submitted.region

---------------------------------------------------------------------------
(* Properties of the allow-list recompute *)

\* optimizeSplit was entered from generateConstructorSplit and has not
\* started its first pass
AtInitialSelection == optCaller = "constructor" /\ optPc = "loop" /\ iterationCount = 0

\* C14: the list generateConstructorSplit hands to the optimizer has a
\* record selected exactly when its channel is on the allow-list and its
\* tcpp is defined; from then on, through every pass and in the list
\* returned, a record without tcpp is never selected, on the list or not.
AllowListSelectsListedWithTcpp ==
    optCaller = "constructor" =>
        \A k \in 1..Len(optData) :
            /\ AtInitialSelection =>
                  (optData[k].selected <=>
                      (optData[k].channel \in submitted.selectedChannels /\ optData[k].tcpp # Null))
            /\ optData[k].tcpp = Null => ~optData[k].selected

\* the call returned with a listed record without tcpp left out and a listed
\* record with tcpp selected
ListedWithoutTcppLeftOut ==
    /\ optCaller = "constructor"
    /\ optPc = "done"
    /\ \E k, m \in 1..Len(optData) :
        /\ optData[k].channel \in submitted.selectedChannels
        /\ optData[k].tcpp = Null
        /\ ~optData[k].selected
        /\ optData[m].channel \in submitted.selectedChannels
        /\ optData[m].selected

---------------------------------------------------------------------------
(* Repeated runs *)

\* what a variant shows of its records: flags and shares, in list order
FlagsAndShares(data) ==
    [k \in 1..Len(data) |->
        <<data[k].region, data[k].channel, data[k].selected, data[k].share>>]

---------------------------------------------------------------------------
(* Properties of the Efficiency weighting *)

\* rating / price of a record, 0 when the price is null, NaN or not above 0
RatingPerPrice(d) ==
    IF d.cpp # Null /\ ~IsNaN(d.cpp) /\ Gt(d.cpp, Zero)
    THEN Div(IF d.tvrTa = Null \/ IsNaN(d.tvrTa) THEN Zero ELSE d.tvrTa, d.cpp)
    ELSE Zero

\* the records of the example, in file order, all of them selected
ExampleAllSelected(data) ==
    /\ Len(data) = 3
    /\ \A k \in 1..3 : data[k].region = "r4" /\ data[k].selected

\* C16: in a pass under the Efficiency weighting every record selected at
\* its start gets weighted rating = rating / price (0 without a price above
\* 0) and, when the region's total is above 0, share = weighted rating /
\* total over the region's selected records; the list returned gives every
\* selected record points = share * 1000. For ratings 2, 1, 1 at prices 100,
\* 50, 50 with no record dropped, each share is 1/3 and each record has
\* 1000/3 points.
EfficiencySharesByRatingPerPrice ==
    [][/\ (optPc = "loop" /\ optLogic = "Efficiency" /\ iterationCount' <= MaxIterations)
            => \A r \in {optBrief[i].region : i \in 1..Len(optBrief)} :
                LET sel == SeqOfSet({k \in 1..Len(optData) :
                                        optData[k].region = r /\ optData[k].selected})
                    total == SumNums([j \in 1..Len(sel) |-> RatingPerPrice(optData[sel[j]])])
                IN  \A j \in 1..Len(sel) :
                        /\ optData'[sel[j]].weightedRating = RatingPerPrice(optData[sel[j]])
                        /\ Gt(total, Zero) =>
                              optData'[sel[j]].share = Div(RatingPerPrice(optData[sel[j]]), total)
       /\ (optPc = "finalize" /\ optLogic = "Efficiency")
            => /\ \A k \in 1..Len(optData') :
                     optData'[k].selected =>
                        optData'[k].trp = Mul(OrZero(optData'[k].share), Num(1000))
               /\ (ratings = EfficiencyExample /\ ExampleAllSelected(optData))
                    => \A k \in 1..3 : /\ optData'[k].share = Rat(1, 3)
                                        /\ optData'[k].trp = Rat(1000, 3)]_vars

\* the example returned: ratings 2, 1, 1 at prices 100, 50, 50, all three
\* records selected
EfficiencyExampleReturned ==
    /\ optPc = "done"
    /\ optLogic = "Efficiency"
    /\ ratings = EfficiencyExample
    /\ ExampleAllSelected(optData)
    /\ \A k \in 1..3 : optData[k].weightedRating = Rat(1, 50)

---------------------------------------------------------------------------
(* Properties of the stored summaries *)

\* C17: in every region summary the results screen holds, after the batch
\* compute and after each ad hoc recompute, when some variant has a budget
\* above 0 every variant's cost index is its budget divided by the largest
\* budget of the region's variants, lies between 0 and 1, and is 1 for a
\* variant of that largest budget.
CostIndexIsBudgetOverMax ==
    localResults.present =>
        \A r \in DOMAIN localResults.summaries :
            LET kpis == localResults.summaries[r].kpis
                positive == {n \in DOMAIN kpis : Gt(kpis[n].budget, Zero)}
            IN  positive # {} =>
                \E top \in positive :
                    /\ \A n \in DOMAIN kpis : ~Gt(kpis[n].budget, kpis[top].budget)
                    /\ kpis[top].costIndex = One
                    /\ \A n \in DOMAIN kpis :
                        /\ kpis[n].costIndex = Div(kpis[n].budget, kpis[top].budget)
                        /\ Le(Zero, kpis[n].costIndex)
                        /\ Le(kpis[n].costIndex, One)

\* a recompute wrote the most expensive variant of its region: its index is
\* 1 and a batch variant's index fell below 1
RecomputeBecameMostExpensive ==
    /\ recomputes > 0
    /\ submitted.splitName \in DOMAIN localResults.summaries[submitted.region].kpis
    /\ LET kpis == localResults.summaries[submitted.region].kpis
       IN  /\ kpis[submitted.splitName].costIndex = One
           /\ \E n \in BatchVariants \cap DOMAIN kpis :
                 /\ Gt(kpis[n].costIndex, Zero)
                 /\ Lt(kpis[n].costIndex, One)
           /\ \E n \in BatchVariants \cap DOMAIN kpis :
                 results.summaries[submitted.region].kpis[n].costIndex = One


---------------------------------------------------------------------------
(* Properties of the divisions *)

\* The denominators one region of one loop pass divides by: the number of
\* selected records, the price ratio and the price of each record whose
\* guard lets the division run, the three totals of the blend, the 100 of
\* the weights, and the total weighted rating
RegionDivisors(data, region, weightingLogic, weights) ==
    LET sel == SeqOfSet({i \in 1..Len(data) : data[i].region = region /\ data[i].selected})
        n == Len(sel)
        avgTcpp == Div(SumNums([k \in 1..n |-> OrZero(data[sel[k]].tcpp)]), Num(n))
        custom == weightingLogic = "Custom" /\ weights.given
        after == RegionPass(data, region, weightingLogic, weights)
        totalWeightedRating == SumNums([k \in 1..n |-> OrZero(after[sel[k]].weightedRating)])
        Positive(x) == IF Gt(x, Zero) THEN {x} ELSE {}
    IN  IF n = 0 THEN {}
        ELSE {Num(n)}
             \cup (IF custom \/ weightingLogic = "TCPP"
                   THEN UNION {{avgTcpp, Div(data[sel[k]].tcpp, avgTcpp)} : k \in
                           {k \in 1..n : /\ Gt(avgTcpp, Zero)
                                         /\ Truthy(data[sel[k]].tcpp)
                                         /\ Gt(data[sel[k]].tcpp, Zero)}}
                   ELSE {})
             \cup (IF custom \/ weightingLogic = "Efficiency"
                   THEN {data[sel[k]].cpp : k \in
                           {k \in 1..n : Gt(OrZero(data[sel[k]].cpp), Zero)}}
                   ELSE {})
             \cup (IF custom
                   THEN {Num(100)}
                        \cup Positive(SumNums([k \in 1..n |-> AffScore(data[sel[k]])]))
                        \cup Positive(SumNums([k \in 1..n |-> TcppScore(data[sel[k]], avgTcpp)]))
                        \cup Positive(SumNums([k \in 1..n |-> EffScore(data[sel[k]])]))
                   ELSE {})
             \cup Positive(totalWeightedRating)

\* The denominators the orbital-cap pass divides by in one region: the 100
\* of the percentage, the total orbital share once it is above the cap, and
\* the total network share where its guard lets the division run
CapDivisors(data, region, brief) ==
    LET regionBrief == GetBrief(brief, region)
        orbitalChannels == SeqOfSet({i \in 1..Len(data) :
            data[i].region = region /\ data[i].selected /\ IsOrbitalName(data[i].channel)})
        networkChannels == SeqOfSet({i \in 1..Len(data) :
            data[i].region = region /\ data[i].selected /\ ~IsOrbitalName(data[i].channel)})
        totalOrbitalShare ==
            SumNums([k \in 1..Len(orbitalChannels) |-> OrZero(data[orbitalChannels[k]].share)])
        maxShare == Div(regionBrief.maxOrbitalShare, Num(100))
        totalNetworkShare ==
            SumNums([k \in 1..Len(networkChannels) |-> OrZero(data[networkChannels[k]].share)])
    IN  IF regionBrief.maxOrbitalShare = Null THEN {}
        ELSE {Num(100)}
             \cup (IF Gt(totalOrbitalShare, maxShare)
                   THEN {totalOrbitalShare}
                        \cup (IF Gt(totalNetworkShare, Zero) THEN {totalNetworkShare} ELSE {})
                   ELSE {})

\* the denominators of the step optimizeSplit takes next
NextDivisors ==
    CASE optPc = "loop" /\ iterationCount < MaxIterations ->
            UNION {RegionDivisors(optData, BriefRegions(optBrief)[r], optLogic, optWeights) :
                       r \in 1..Len(optBrief)}
      [] optPc = "cap" /\ optLimits ->
            UNION {CapDivisors(optData, BriefRegions(optBrief)[r], optBrief) :
                       r \in 1..Len(optBrief)}
      [] OTHER -> {}

\* C20: every division of the optimizer loop and of the orbital-cap pass is
\* executed only with a denominator above 0, for every file and every value
\* the brief form accepts, and no share of the returned variant is NaN
DivisionsGuarded ==
    /\ \A x \in NextDivisors : Gt(x, Zero)
    /\ optPc = "done" => \A i \in 1..Len(optData) : ~IsNaN(ToNum(optData[i].share))

---------------------------------------------------------------------------
(* Properties of the strategies of the constructor panel *)

\* the strategy an option of the selector of ConstructorPanel stands for
PanelStrategy(logic) == IF logic = "Effektivnost" THEN "Efficiency" ELSE logic

\* the list of this pass rated by the strategy the panel's option stands for
RatedByPanelStrategy ==
    RegionsPass(optData, BriefRegions(optBrief), PanelStrategy(optLogic), optWeights)

\* C21: in every pass of an allow-list recompute each selected record gets
\* the weighted rating of the strategy picked in the constructor panel (TCPP,
\* Affinity, Efficiency: rating / price, or the Custom blend)
PanelStrategyRatesByItsFormula ==
    [][(optCaller = "constructor" /\ optPc = "loop" /\ iterationCount' <= MaxIterations)
       => \A i \in 1..Len(optData) :
            optData[i].selected
            => optData'[i].weightedRating = RatedByPanelStrategy[i].weightedRating]_vars

---------------------------------------------------------------------------
(* Properties of the regions of an allow-list recompute *)

\* C22: the list an allow-list recompute returns for the brief of one region
\* holds no selected record of another region: every record outside the
\* region is unselected with share 0 and points 0
AllowListKeepsToItsRegion ==
    (optCaller = "constructor" /\ optPc = "done")
    => \A i \in 1..Len(optData) :
          optData[i].region # submitted.region
          => /\ ~optData[i].selected
             /\ optData[i].share = Zero
             /\ optData[i].trp = Zero

---------------------------------------------------------------------------
(* Properties of the orbital-cap pass *)

\* the cap of a region as a share: regionBrief.maxOrbitalShare / 100
MaxShare(regionBrief) == Div(regionBrief.maxOrbitalShare, Num(100))

\* the orbital-cap pass is about to scale the orbital shares of the region:
\* the cap is configured and the selected orbital shares add up to more
CapScales(region) ==
    /\ optPc = "cap" /\ optLimits
    /\ GetBrief(optBrief, region).maxOrbitalShare # Null
    /\ Gt(ShareSum(optData, region, IsSelectedOrbital), MaxShare(GetBrief(optBrief, region)))

\* C23: when the orbital-cap pass scales the orbital shares of a region by
\* cap / orbital total, every selected network channel of the region gets,
\* in proportion to its share, its part of the whole share taken from the
\* orbital channels, and the selected shares of the region add up to the same
\* before and after the pass
CapPassKeepsRegionTotal ==
    [][\A r \in 1..Len(optBrief) :
        LET region == optBrief[r].region
            orbital == ShareSum(optData, region, IsSelectedOrbital)
            network == ShareSum(optData, region, IsSelectedNetwork)
            freed == Sub(orbital, MaxShare(optBrief[r]))
        IN  CapScales(region)
            => /\ \A i \in 1..Len(optData) :
                    /\ (optData[i].region = region /\ IsSelectedOrbital(optData[i]))
                       => optData'[i].share =
                            Mul(optData[i].share, Div(MaxShare(optBrief[r]), orbital))
                    /\ (optData[i].region = region /\ IsSelectedNetwork(optData[i]))
                       => optData'[i].share =
                            Add(optData[i].share, Mul(Div(optData[i].share, network), freed))
               /\ ShareSum(optData', region, IsSelected) = ShareSum(optData, region, IsSelected)
      ]_vars

\* the orbital-cap pass is about to move freed share onto the selected
\* network channels of the region
Redistributes(region) ==
    /\ CapScales(region)
    /\ Gt(ShareSum(optData, region, IsSelectedNetwork), Zero)

\* the step is the orbital-cap pass after a loop that ended on a pass that
\* deselected nothing
CapStep == LoopConverged /\ optPc' = "finalize"

---------------------------------------------------------------------------
(* Properties of the explicit shares *)

\* C25: in the explicit-shares variant the results screen holds after the
\* panel has submitted percentages adding up to 100, the selected shares of
\* the region it was computed for add up to 1
ManualSharesAddUpToOne ==
    submitted.splitName = "Manual" =>
        ShareSum(localResults.splits["Manual"], submitted.region, IsSelected) = One

---------------------------------------------------------------------------
(* The wizard of App with the submits of UploadStep in flight *)

\* handleSubmit calls that can be reading their files at one time
MaxReading == 2

\* A ratings sheet that passes validateRatingsFile and names no region: its
\* only row has a blank region cell
NoRegionExample ==
    << RatingsRow("", "a", FALSE, FALSE, Num(4), Num(4), Num(2), TRUE) >>

\* the validated files the upload form submits in this specification
WizardFiles ==
    { SubSeq(RowCatalog, 1, 2), SubSeq(RowCatalog, 7, 8), NoRegionExample }

\* UploadStep.handleSubmit up to its first await: the files start to be read
\* (neither button of the form waits for the reading); onSubmit is the
\* handlePreParseSubmit of the render the click happened in
HandleSubmit ==
    /\ step = "upload"
    /\ Cardinality(reading) < MaxReading
    /\ \E rows \in WizardFiles :
        /\ [rows |-> rows, completedSteps |-> completedSteps] \notin reading
        /\ reading' = reading \cup {[rows |-> rows, completedSteps |-> completedSteps]}
    /\ UNCHANGED <<appVars, screenVars, optVars>>

\* UploadStep.handleSubmit after validation calls onSubmit, whatever the
\* wizard shows by then: App.handlePreParseSubmit up to its await
PreParseBegin ==
    /\ \E call \in reading :
        /\ reading' = reading \ {call}
        /\ ratings' = call.rows
        /\ completedSteps' = StepsAfterUpload(call.completedSteps)
    /\ results' = NoResults
    /\ briefData' = <<>>
    /\ availableRegions' = NoList
    /\ availableTAs' = NoList
    /\ isLoading' = TRUE
    /\ error' = NoError
    /\ Unmounted
    /\ UNCHANGED <<step, optVars>>

\* App.handlePreParseSubmit from its await on: try or catch, then finally
PreParseSettle ==
    /\ \E outcome \in {PreParseOutcome(ratings)} :
        /\ IF outcome.step = "brief"
           THEN /\ availableRegions' = outcome.availableRegions
                /\ availableTAs' = outcome.availableTAs
                /\ UNCHANGED error
           ELSE /\ error' = outcome.error
                /\ UNCHANGED <<availableRegions, availableTAs>>
        /\ step' = outcome.step
    /\ isLoading' = FALSE
    /\ UNCHANGED <<completedSteps, ratings, briefData, results, reading, screenVars, optVars>>

\* An awaited call of this program settles without a further await, so the
\* rest of the handler runs before the next event is dispatched: events
\* come only while no handler is at its await. handleCalculate is taken
\* whole: what it sets before its await (briefData, isLoading, error) is
\* read by nothing before its continuation has run.
NextWizard ==
    \/ ~isLoading /\ HandleGoToUpload
    \/ ~isLoading /\ HandleStepNavigation
    \/ ~isLoading /\ HandleSubmit
    \/ ~isLoading /\ PreParseBegin
    \/ isLoading /\ PreParseSettle
    \/ ~isLoading /\ HandleCalculateAnyAudience
    \/ ~isLoading /\ HandleReset

SpecWizard == Init /\ [][NextWizard]_vars

---------------------------------------------------------------------------
(* Properties of the upload submit *)

\* the stored results, the brief and both lists are cleared and neither
\* "brief" nor "results" is a completed step
ClearedForNewFiles ==
    /\ ~results.present
    /\ briefData = <<>>
    /\ ~availableRegions.present
    /\ ~availableTAs.present
    /\ completedSteps \cap {"brief", "results"} = {}

\* the stored ratings sheet names a region in some row
NamesARegion == \E i \in 1..Len(ratings) : ratings[i].region # ""

\* C26: when handlePreParseSubmit reaches its pre-parse, the stored results,
\* the brief and the region and audience lists are cleared, "brief" and
\* "results" are no completed steps and the step is the one it was; when the
\* pre-parse has settled the wizard is on the brief step with both lists if
\* the sheet could be pre-parsed, and on the upload step with the error and
\* no lists if not.
PreParseClearsThenSettles ==
    [][/\ (~isLoading /\ isLoading') => (ClearedForNewFiles' /\ step' = step)
       /\ (isLoading /\ ~isLoading')
            => /\ ~results'.present /\ briefData' = <<>>
               /\ completedSteps' \cap {"brief", "results"} = {}
               /\ IF NamesARegion
                  THEN /\ step' = "brief"
                       /\ availableRegions'.present /\ availableTAs'.present
                       /\ availableRegions'.items = RegionsOf(ratings)
                       /\ error' = NoError
                  ELSE /\ step' = "upload"
                       /\ error' # NoError
                       /\ ~availableRegions'.present /\ ~availableTAs'.present]_vars

\* a submit whose sheet could not be pre-parsed has left the wizard on the
\* upload step with the error
PreParseFailureReturned ==
    /\ ~isLoading
    /\ step = "upload"
    /\ error = NoRegionsError
    /\ ratings = NoRegionExample
    /\ "upload" \in completedSteps

---------------------------------------------------------------------------
(* Properties of the orbital price key *)

\* C27: a ratings row that is orbital by its distribution-block cell or by
\* a " - 0" at the end of its raw name, whose channel the price table lists
\* written with the " - 0" suffix, yields a record named with the suffix
\* once and priced with that row of the price table.
OrbitalRowFindsSuffixedPrice ==
    results.present =>
        \A i \in 1..Len(ratings) :
            LET row == ratings[i]
                priced == {k \in 1..Len(CppFile) :
                              /\ CppFile[k].region = row.region
                              /\ CppFile[k].base = row.base
                              /\ CppFile[k].rawSfx}
            IN  (/\ row.block \/ row.rawSfx
                 /\ HasBrief(briefData, row.region)
                 /\ ~IncludesSlash(row.base)
                 /\ priced # {})
                => \E j \in 1..Len(results.initialData) :
                      /\ results.initialData[j].region = row.region
                      /\ results.initialData[j].channel = Channel(row.base, 1)
                      /\ results.initialData[j].cpp
                            = CppFile[CHOOSE k \in priced : \A l \in priced : l <= k].cpp

---------------------------------------------------------------------------
(* Properties of the passes of the loop *)

\* the rows of the file carry ratings that are numbers not below zero, and
\* every record of the call has a price above zero
NonNegativeRatingsPositivePrices ==
    /\ \A i \in 1..Len(ratings) :
          \A x \in {ratings[i].avg, ratings[i].total, ratings[i].sales} :
              x # NaN /\ x # Null /\ ~Lt(x, Zero)
    /\ \A i \in 1..Len(optData) :
          optData[i].cpp # Null /\ optData[i].cpp # NaN /\ Gt(optData[i].cpp, Zero)

\* C28: for ratings not below zero and prices above zero, under every
\* weighting a channel that is selected with a share after one pass stays
\* selected in the next pass with a share that is not smaller, and no call
\* makes more than two passes.
SurvivorsKeepTheirShare ==
    /\ [][(/\ NonNegativeRatingsPositivePrices
           /\ optPc = "loop" /\ iterationCount >= 1 /\ iterationCount' <= MaxIterations)
          => \A i \in 1..Len(optData) :
                (optData[i].selected /\ optData[i].share # Null)
                => /\ optData'[i].selected
                   /\ ~Lt(optData'[i].share, optData[i].share)]_vars
    /\ [](NonNegativeRatingsPositivePrices => iterationCount <= 2)

\* C29: in every pass under the TCPP weighting, in a region where the
\* ratios rating / cost per target point of the selected records have a
\* positive sum, each selected record gets the share ratio / sum: the
\* average cost of the selected set does not enter.
TcppSharesAreRatioShares ==
    [][(optLogic = "TCPP" /\ optPc = "loop" /\ iterationCount' <= MaxIterations)
       => \A k \in 1..Len(optBrief) :
             LET sel == {i \in 1..Len(optData) :
                            optData[i].region = optBrief[k].region /\ optData[i].selected}
                 idx == SeqOfSet(sel)
                 total == SumNums([j \in 1..Len(idx) |->
                                      Div(optData[idx[j]].tvrTa, optData[idx[j]].tcpp)])
             IN  Gt(total, Zero)
                 => \A i \in sel :
                       optData'[i].share = Div(Div(optData[i].tvrTa, optData[i].tcpp), total)]_vars

\* a TCPP call has returned after two passes over selected sets of different
\* average cost, with two channels of different cost per point sharing a region
TcppTwoPassesReturned ==
    /\ optLogic = "TCPP"
    /\ optPc = "done"
    /\ iterationCount >= 2
    /\ \E i, j \in 1..Len(optData) :
          /\ optData[i].region = optData[j].region
          /\ optData[i].selected /\ optData[j].selected
          /\ optData[i].tcpp # optData[j].tcpp
          /\ \E l \in 1..Len(optData) :
                /\ optData[l].region = optData[i].region
                /\ optData[l].comment.kind = "LowShare"

---------------------------------------------------------------------------
(* Properties of the wizard with submits in flight *)

====
